---- MODULE Spec2Model ----
(***************************************************************************)
(* Model of the phlaredb Head (pkg/phlaredb/head.go): the write path       *)
(* (Ingest over the deduplicating dictionary tables), the background       *)
(* watchdog (loop), Close and Flush.                                       *)
(*                                                                         *)
(* IDs are 0-based as in the Go code; TLA+ sequences are 1-based, so the   *)
(* element with Head ID i of a table is slice[i + 1].                      *)
(***************************************************************************)
EXTENDS Integers, Sequences, FiniteSets, TLC

VARIABLES
    strings, mappings, functions, locations, stacktraces, profiles,
        \* the six tables of the Head: [slice, lookup, size, closed]
    index,            \* h.index: series fingerprint -> rows, with its counters
    delta,            \* h.delta: series fingerprint -> baseline samples
    pprofLabelCache,  \* h.pprofLabelCache
    meta,             \* h.meta: [MinTime, MaxTime]
    totalSamples,     \* h.totalSamples
    stopCh,           \* "open" / "closed"
    flushCh,          \* "open" / "closed"
    timer,            \* h.flushForcedTimer: "armed" / "fired" / "drained" / "stopped"
    tick,             \* the 5 s ticker's channel: "empty" / "ready" / "stopped"
    loopPc,           \* the watchdog goroutine: "select" / "exited"
    closePc,          \* a Close call in progress: "idle" / "wait" / "returned"
    flushed,          \* Flush has been called
    disk,             \* the directories under cfg.DataPath: headPath, localPath
    ncalls,           \* number of API calls made so far
    last,             \* the latest finished API call: its name, input and results
    procs             \* the Ingest calls in flight (concurrent specification)

vars == <<strings, mappings, functions, locations, stacktraces, profiles,
          index, delta, pprofLabelCache, meta, totalSamples,
          stopCh, flushCh, timer, tick, loopPc, closePc, flushed, disk,
          ncalls, last, procs>>

tableVars == <<strings, mappings, functions, locations, stacktraces, profiles>>
dataVars  == <<strings, mappings, functions, locations, stacktraces, profiles,
               index, delta, pprofLabelCache, meta, totalSamples>>
loopVars  == <<stopCh, flushCh, timer, tick, loopPc, closePc>>

-----------------------------------------------------------------------------
(* Bounds of the model *)

\* API calls made on one Head in the sequential specification
MaxCalls == 2
\* Ingest calls started in the concurrent specification
MaxConcCalls == 2
\* API calls made on one Head in the watchdog specification
MaxLoopCalls == 2
\* h.parquetConfig.MaxBlockBytes, the size threshold of the configuration, in
\* the units of elementSize (one Ingest call of the watchdog specification stores 12 units)
MaxBlockBytes == 8

(* Program constants *)

\* math.MaxInt64 does not fit TLC's integers: block.NewMeta's initial MinTime
\* is modelled by a value above every timestamp the inputs use.
MaxTimeValue == 1000000
\* model.TimeFromUnixNano: nanoseconds per millisecond
NanosPerMilli == 1000000
\* the value a failed idConversionTable lookup yields in the model: the Go
\* code panics there
Panic == -1

-----------------------------------------------------------------------------
(* idConversionTable and the rewriter *)

Range(f) == {f[x] : x \in DOMAIN f}

\* make(map[int64]int64): the empty conversion table / lookup map
EmptyMap == [k \in {} |-> 0]

\* mutant: the per-profile ID is left as it is
rewriteIdNoop(t, idx) == idx

\* mutant: an unknown per-profile ID becomes the default ID
rewriteIdZero(t, idx) == IF idx \in DOMAIN t THEN t[idx] ELSE 0

\* idConversionTable.rewrite / rewriteUint64: the Head ID of per-profile ID idx
rewriteId(t, idx) == IF idx \in DOMAIN t THEN t[idx] ELSE Panic

\* a Go map index expression without the ok check: the zero value for a key
\* the map does not have, head.go:274
mapIndex(t, k) == IF k \in DOMAIN t THEN t[k] ELSE 0

rewriteIds(t, ids) == [i \in 1..Len(ids) |-> rewriteId(t, ids[i])]

\* rewriter{}: no conversion table published yet
EmptyRewriter ==
    [strings |-> EmptyMap, mappings |-> EmptyMap, functions |-> EmptyMap,
     locations |-> EmptyMap, stacktraces |-> EmptyMap]

-----------------------------------------------------------------------------
(* The deduplicating table *)

\* lock is the table's sync.RWMutex: the number of readers holding it (a
\* writer holds it within one step only)
EmptyTable == [slice |-> <<>>, lookup |-> EmptyMap, size |-> 0, closed |-> FALSE, lock |-> 0]

\* helper.size: the rough size of one element, one unit per element
elementSize == 1

RECURSIVE ingestNoLookup(_, _, _, _, _)
\* mutant: every element is appended, whether or not its key is known
ingestNoLookup(tbl, elems, keys, pos, conv) ==
    IF pos > Len(elems) THEN [tbl |-> tbl, conv |-> conv]
    ELSE ingestNoLookup([tbl EXCEPT !.slice  = Append(tbl.slice, elems[pos]),
                                    !.lookup = (keys[pos] :> Len(tbl.slice)) @@ tbl.lookup,
                                    !.size   = tbl.size + elementSize],
                        elems, keys, pos + 1,
                        conv @@ ((pos - 1) :> Len(tbl.slice)))

RECURSIVE ingestSkipId(_, _, _, _, _)
\* mutant: a miss takes the ID after the next one
ingestSkipId(tbl, elems, keys, pos, conv) ==
    IF pos > Len(elems) THEN [tbl |-> tbl, conv |-> conv]
    ELSE LET k == keys[pos] IN
         IF k \in DOMAIN tbl.lookup
         THEN ingestSkipId(tbl, elems, keys, pos + 1,
                           conv @@ ((pos - 1) :> tbl.lookup[k]))
         ELSE ingestSkipId([tbl EXCEPT !.slice  = Append(tbl.slice, elems[pos]),
                                       !.lookup = tbl.lookup @@ (k :> Len(tbl.slice) + 1),
                                       !.size   = tbl.size + elementSize],
                           elems, keys, pos + 1,
                           conv @@ ((pos - 1) :> Len(tbl.slice) + 1))

RECURSIVE ingestFrom(_, _, _, _, _)
\* The table's loop over a batch: elems[pos] (already rewritten) has key
\* keys[pos]; on a hit the existing Head ID is reused, on a miss the next
\* dense ID is assigned and the element appended. conv collects old -> new,
\* the old ID of an element being its position in the batch.
ingestFrom(tbl, elems, keys, pos, conv) ==
    IF pos > Len(elems) THEN [tbl |-> tbl, conv |-> conv]
    ELSE LET k == keys[pos] IN
         IF k \in DOMAIN tbl.lookup
         THEN ingestFrom(tbl, elems, keys, pos + 1,
                         conv @@ ((pos - 1) :> tbl.lookup[k]))
         ELSE ingestFrom([tbl EXCEPT !.slice  = Append(tbl.slice, elems[pos]),
                                     !.lookup = tbl.lookup @@ (k :> Len(tbl.slice)),
                                     !.size   = tbl.size + elementSize],
                         elems, keys, pos + 1,
                         conv @@ ((pos - 1) :> Len(tbl.slice)))

\* deduplicatingSlice.ingest, under the table's writer lock
tableIngest(tbl, elems, keys) == ingestFrom(tbl, elems, keys, 1, EmptyMap)

-----------------------------------------------------------------------------
(* The helpers *)

\* stringsHelper.key: the string itself
stringsKey(s) == s

\* mappingsHelper.rewrite: the filename and build-id string IDs
mappingsRewrite(r, m) ==
    [m EXCEPT !.Filename = rewriteId(r.strings, m.Filename),
              !.BuildId  = rewriteId(r.strings, m.BuildId)]

\* functionsHelper.rewrite: the three string IDs
functionsRewrite(r, f) ==
    [f EXCEPT !.Name       = rewriteId(r.strings, f.Name),
              !.SystemName = rewriteId(r.strings, f.SystemName),
              !.Filename   = rewriteId(r.strings, f.Filename)]

\* locationsHelper.rewrite: the mapping ID and each line's function ID
locationsRewrite(r, l) ==
    [l EXCEPT !.MappingId = rewriteId(r.mappings, l.MappingId),
              !.Line = [i \in 1..Len(l.Line) |->
                          [l.Line[i] EXCEPT !.FunctionId =
                              rewriteId(r.functions, l.Line[i].FunctionId)]]]

\* mutant: the location IDs stay per-profile IDs
stacktracesRewriteNone(r, s) == s

\* stacktracesHelper.rewrite: each location ID
stacktracesRewrite(r, s) ==
    [s EXCEPT !.LocationIDs = rewriteIds(r.locations, s.LocationIDs)]

RECURSIVE PutUint64(_, _)
\* binary.LittleEndian.PutUint64: the n low bytes of v, lowest first
PutUint64(v, n) == IF n = 0 THEN <<>> ELSE <<v % 256>> \o PutUint64(v \div 256, n - 1)

\* the bytes stacktracesHelper.key writes to the hash, location by location,
\* from location pos on: byte i belongs to location pos + (i - 1) \div 8
hashInput(ids, pos) ==
    [i \in 1..(8 * (Len(ids) + 1 - pos)) |->
        PutUint64(ids[pos + ((i - 1) \div 8)], 8)[((i - 1) % 8) + 1]] \o <<>>

\* xxhash, as stacktracesHelper.key uses it: XXH64 with seed 0. A 64-bit
\* word is kept as its eight bytes, lowest first.

\* the limbs x (any naturals) as eight bytes: carries go up, the carry out
\* of the highest byte is dropped (arithmetic modulo 2^64)
carry64(x) ==
    LET c1 == x[1] \div 256
        c2 == (x[2] + c1) \div 256
        c3 == (x[3] + c2) \div 256
        c4 == (x[4] + c3) \div 256
        c5 == (x[5] + c4) \div 256
        c6 == (x[6] + c5) \div 256
        c7 == (x[7] + c6) \div 256
    IN <<x[1] % 256, (x[2] + c1) % 256, (x[3] + c2) % 256, (x[4] + c3) % 256,
         (x[5] + c4) % 256, (x[6] + c5) % 256, (x[7] + c6) % 256, (x[8] + c7) % 256>>

RECURSIVE mulLimb(_, _, _, _)
\* the products of a and b that make limb k: a[i] * b[k + 1 - i], from i on
mulLimb(a, b, k, i) == IF i > k THEN 0 ELSE (a[i] * b[k + 1 - i]) + mulLimb(a, b, k, i + 1)

\* a + b and a * b modulo 2^64
add64(a, b) == carry64([k \in 1..8 |-> a[k] + b[k]] \o <<>>)
mul64(a, b) == carry64([k \in 1..8 |-> mulLimb(a, b, k, 1)] \o <<>>)

\* 2^n for n in 0..8
pow2(n) == <<1, 2, 4, 8, 16, 32, 64, 128, 256>>[n + 1]

\* bits.RotateLeft64(a, r), for r = 8q + s
rotl64(a, r) ==
    [k \in 1..8 |->
        ((a[((k + 7 - (r \div 8)) % 8) + 1] * pow2(r % 8)) % 256)
            + (a[((k + 14 - (r \div 8)) % 8) + 1] \div pow2(8 - (r % 8)))] \o <<>>

\* a >> r
shr64(a, r) ==
    [k \in 1..8 |->
        (IF k + (r \div 8) <= 8 THEN a[k + (r \div 8)] \div pow2(r % 8) ELSE 0)
            + (IF k + (r \div 8) + 1 <= 8
               THEN (a[k + (r \div 8) + 1] * pow2(8 - (r % 8))) % 256 ELSE 0)] \o <<>>

RECURSIVE xorBits(_, _, _)
\* x ^ y on the n low bits, and a ^ b
xorBits(x, y, n) ==
    IF n = 0 THEN 0 ELSE ((x + y) % 2) + (2 * xorBits(x \div 2, y \div 2, n - 1))
xor64(a, b) == [k \in 1..8 |-> xorBits(a[k], b[k], 8)] \o <<>>

\* the primes of XXH64, the word n < 2^16, and -a
prime1 == <<\h87, \hCA, \hEB, \h85, \hB1, \h79, \h37, \h9E>>
prime2 == <<\h4F, \hEB, \hD4, \h27, \h3D, \hAE, \hB2, \hC2>>
prime3 == <<\hF9, \h79, \h37, \h9E, \hB1, \h67, \h56, \h16>>
prime4 == <<\h63, \hAE, \hB2, \hC2, \h77, \hCA, \hEB, \h85>>
prime5 == <<\hC5, \h67, \h56, \h16, \h2F, \hEB, \hD4, \h27>>
word64(n) == <<n % 256, n \div 256, 0, 0, 0, 0, 0, 0>>
neg64(a)  == add64([k \in 1..8 |-> 255 - a[k]], word64(1))

\* round and mergeRound
xxhRound(acc, input) == mul64(rotl64(add64(acc, mul64(input, prime2)), 31), prime1)
xxhMergeRound(acc, val) == add64(mul64(xor64(acc, xxhRound(word64(0), val)), prime1), prime4)

\* the word of b that starts at byte i (from 1)
wordAt(b, i) == [k \in 1..8 |-> b[i + k - 1]] \o <<>>

RECURSIVE xxhStripes(_, _, _, _)
\* the accumulators v, four words, after the 32-byte stripes lo..hi of b
\* (from 1); the loop over the stripes is split in halves, which keeps its
\* evaluation shallow
xxhStripes(b, v, lo, hi) ==
    IF Len(v) # 4 \/ lo > hi THEN v
    ELSE IF lo = hi
    THEN [k \in 1..4 |-> xxhRound(v[k], wordAt(b, (32 * lo) - 39 + (8 * k)))] \o <<>>
    ELSE xxhStripes(b, xxhStripes(b, v, lo, (lo + hi) \div 2), ((lo + hi) \div 2) + 1, hi)

\* the statements that follow the stripes, each working on the digest h:
\* the accumulators are merged in, the length is added, the words after
\* the stripes are mixed in, and the final mix
xxhStatement(h, st) ==
    CASE st.op = "merge" -> xxhMergeRound(h, st.w)
      [] st.op = "add"   -> add64(h, st.w)
      [] st.op = "word"  -> add64(mul64(rotl64(xor64(h, xxhRound(word64(0), st.w)), 27),
                                        prime1), prime4)
      [] st.op = "shift" -> xor64(h, shr64(h, st.n))
      [] st.op = "mul"   -> mul64(h, st.w)

RECURSIVE xxhRun(_, _, _, _)
\* the statements lo..hi of sts on the word h, one after the other, split
\* in halves too
xxhRun(h, sts, lo, hi) ==
    IF Len(h) # 8 \/ lo > hi THEN h
    ELSE IF lo = hi THEN xxhStatement(h, sts[lo])
    ELSE xxhRun(xxhRun(h, sts, lo, (lo + hi) \div 2), sts, ((lo + hi) \div 2) + 1, hi)

\* the rotations of the four accumulators that start the digest
xxhRotations == <<1, 7, 12, 18>>

\* XXH64 of the bytes b with seed 0; stacktracesHelper.key writes eight
\* bytes per location, so that b is a sequence of whole words
XXH64(b) ==
    LET n  == Len(b) \div 32
        v  == xxhStripes(b, <<add64(prime1, prime2), prime2, word64(0), neg64(prime1)>>, 1, n)
        starts == [k \in 1..4 |-> [op |-> "add", w |-> rotl64(v[k], xxhRotations[k])]] \o <<>>
        merges == [k \in 1..4 |-> [op |-> "merge", w |-> v[k]]] \o <<>>
        words  == [k \in 1..((Len(b) - 32 * n) \div 8) |->
                      [op |-> "word", w |-> wordAt(b, 32 * n + 8 * k - 7)]] \o <<>>
        sts    == (IF n > 0 THEN starts \o merges ELSE <<[op |-> "add", w |-> prime5]>>)
                      \o <<[op |-> "add", w |-> word64(Len(b))]>> \o words
                      \o <<[op |-> "shift", n |-> 33], [op |-> "mul", w |-> prime2],
                           [op |-> "shift", n |-> 29], [op |-> "mul", w |-> prime3],
                           [op |-> "shift", n |-> 32]>>
    IN xxhRun(word64(0), sts, 1, Len(sts))

\* a digest as four 16-bit words, highest first
digestWords(h) == [k \in 1..4 |-> h[10 - 2 * k] * 256 + h[9 - 2 * k]]

\* Two stacktraces of 64 frames over the locations 0 and 1 that have one
\* key, 0x6988ef9ba1acc250
CollidingA ==
    <<1, 1, 0, 1, 0, 0, 1, 0,  0, 1, 1, 1, 0, 1, 1, 1,  1, 0, 1, 1, 1, 0, 1, 0,  0, 0, 0, 0, 0, 0, 1, 1,
      0, 1, 0, 0, 1, 0, 1, 0,  0, 0, 1, 1, 1, 0, 1, 1,  0, 1, 0, 1, 0, 1, 0, 0,  0, 1, 1, 1, 1, 0, 0, 0>>
CollidingB ==
    <<0, 0, 0, 0, 0, 1, 1, 0,  1, 1, 1, 1, 1, 1, 1, 0,  1, 1, 1, 0, 1, 1, 0, 0,  0, 0, 0, 1, 1, 1, 0, 1,
      1, 0, 1, 1, 1, 1, 1, 0,  1, 0, 1, 1, 1, 0, 0, 0,  0, 1, 0, 0, 0, 0, 1, 0,  0, 0, 1, 1, 1, 1, 0, 1>>

\* st with the two locations 0 and 1 numbered the other way round
swapLocations(st) == [i \in 1..Len(st) |-> 1 - st[i]] \o <<>>

\* h.Sum64(): the 64-bit digest of the bytes written
Sum64(b) == digestWords(XXH64(b))

\* the digests of the location-ID sequences hashed most often, the short
\* ones over the first Head IDs and the two of 64 frames in either
\* numbering: xxhashTable[ids] is Sum64(hashInput(ids, 1)), written out
xxhashTable ==
       (<<>> :> <<\hEF46, \hDB37, \h51D8, \hE999>>)
    @@ (<<0>> :> <<\h34C9, \h6ACD, \hCADB, \h1BBB>>)
    @@ (<<1>> :> <<\h9F29, \hCB17, \hA2A4, \h9995>>)
    @@ (<<2>> :> <<\hEAC7, \h3E40, \h44E8, \h2DB0>>)
    @@ (<<0, 0>> :> <<\hAF09, \hF715, \h1624, \h7C32>>)
    @@ (<<0, 1>> :> <<\h5522, \hE3E9, \h1134, \hA8FB>>)
    @@ (<<0, 2>> :> <<\h6BCD, \h7F5F, \h8033, \hFF94>>)
    @@ (<<1, 0>> :> <<\h6C1C, \hFF04, \h59C8, \hBB10>>)
    @@ (<<1, 1>> :> <<\hED7A, \hEAD4, \hB89A, \hB6FC>>)
    @@ (<<1, 2>> :> <<\h4B18, \h0FEC, \h3EF3, \hD4AC>>)
    @@ (<<2, 0>> :> <<\h8711, \h18A9, \h1A4E, \h8FBB>>)
    @@ (<<2, 1>> :> <<\h4152, \h5B70, \h9A47, \hB22B>>)
    @@ (<<2, 2>> :> <<\hA73D, \h41D5, \hE035, \hC415>>)
    @@ (CollidingA :> <<\h6988, \hEF9B, \hA1AC, \hC250>>)
    @@ (CollidingB :> <<\h6988, \hEF9B, \hA1AC, \hC250>>)
    @@ (swapLocations(CollidingA) :> <<\h6E14, \hD10E, \hA542, \h2062>>)
    @@ (swapLocations(CollidingB) :> <<\hF940, \hF268, \hDA15, \hA0C2>>)

\* each entry of the table is the digest the hash computes
xxhashTableComputed ==
    \A ids \in DOMAIN xxhashTable : xxhashTable[ids] = Sum64(hashInput(ids, 1))

\* stacktracesHelper.key: xxhash over the little-endian location IDs; two
\* stacktraces of different locations can have one key
stacktracesKey(s) ==
    IF s.LocationIDs \in DOMAIN xxhashTable THEN xxhashTable[s.LocationIDs]
    ELSE Sum64(hashInput(s.LocationIDs, 1))

\* mappings, functions, locations: the key is the tuple of all fields after
\* rewriting, modelled by the rewritten element
tupleKey(e) == e

\* an element the rewrite of which hit an unknown per-profile ID
mappingPanics(m)    == Panic \in {m.Filename, m.BuildId}
functionPanics(f)   == Panic \in {f.Name, f.SystemName, f.Filename}
locationPanics(l)   == l.MappingId = Panic \/ \E i \in 1..Len(l.Line) : l.Line[i].FunctionId = Panic
stacktracePanics(s) == \E i \in 1..Len(s.LocationIDs) : s.LocationIDs[i] = Panic
labelsPanic(ls)     == \E i \in 1..Len(ls) : Panic \in {ls[i].Key, ls[i].Str}

-----------------------------------------------------------------------------
(* Labels, the series index, the delta engine, the label cache *)

\* p.StringTable[i]
stringAt(p, i) == p.StringTable[i + 1]

\* labelsForProfile: the label set of value type pos (1-based here) built
\* from the per-profile strings; __profile_type__ joins the other five
labelsForProfile(p, name, pos) ==
    LET periodType == IF p.PeriodType = <<>> THEN "" ELSE stringAt(p, p.PeriodType[1].Type)
        periodUnit == IF p.PeriodType = <<>> THEN "" ELSE stringAt(p, p.PeriodType[1].Unit)
        sampleType == stringAt(p, p.SampleType[pos].Type)
        sampleUnit == stringAt(p, p.SampleType[pos].Unit)
    IN [name |-> name, periodType |-> periodType, periodUnit |-> periodUnit,
        type |-> sampleType, unit |-> sampleUnit,
        profileType |-> <<name, sampleType, sampleUnit, periodType, periodUnit>>]

\* lbs.Hash(): the fingerprint of a label set, modelled by the label set
fingerprint(lbs) == lbs

EmptyIndex == [series |-> EmptyMap, totalSeries |-> 0, totalProfiles |-> 0]

RECURSIVE insertByTime(_, _, _)
\* the rows of a series stay in timestamp-ascending order
insertByTime(rows, row, pos) ==
    IF pos > Len(rows) THEN Append(rows, row)
    ELSE IF rows[pos].ts > row.ts
         THEN SubSeq(rows, 1, pos - 1) \o <<row>> \o SubSeq(rows, pos, Len(rows))
         ELSE insertByTime(rows, row, pos + 1)

\* profilesIndex.Add: the row (its position in profiles.slice and its
\* timestamp) goes under its series, which is created on first sight
indexAdd(ix, fp, row) ==
    IF fp \in DOMAIN ix.series
    THEN [ix EXCEPT !.series[fp] = insertByTime(ix.series[fp], row, 1),
                    !.totalProfiles = ix.totalProfiles + 1]
    ELSE [series |-> ix.series @@ (fp :> <<row>>),
          totalSeries |-> ix.totalSeries + 1,
          totalProfiles |-> ix.totalProfiles + 1]

\* the profile types whose values are cumulative
CumulativeTypes == {"alloc_space"}

isDelta(lbs) == lbs.type \in CumulativeTypes

\* a baseline sample with the stacktrace ID and label set of s, if any
baselineOf(base, s) ==
    {i \in 1..Len(base) : base[i].StacktraceID = s.StacktraceID /\ base[i].Labels = s.Labels}

\* the elementwise, saturating difference of the new samples to the baseline
deltaSamples(base, new) ==
    [i \in 1..Len(new) |->
        LET m == baselineOf(base, new[i]) IN
        IF m = {} THEN new[i]
        ELSE LET b == base[CHOOSE j \in m : \A k \in m : j <= k].Value IN
             [new[i] EXCEPT !.Value = IF new[i].Value >= b THEN new[i].Value - b ELSE 0]]

\* deltaProfiles.computeDelta: [delta, dropped, profile]
computeDelta(d, profile, lbs) ==
    IF ~isDelta(lbs) THEN [delta |-> d, dropped |-> FALSE, profile |-> profile]
    ELSE IF profile.SeriesFingerprint \notin DOMAIN d
    THEN [delta |-> d @@ (profile.SeriesFingerprint :> profile.Samples),
          dropped |-> TRUE, profile |-> profile]
    ELSE [delta |-> [d EXCEPT ![profile.SeriesFingerprint] = profile.Samples],
          dropped |-> FALSE,
          profile |-> [profile EXCEPT !.Samples =
                          deltaSamples(d[profile.SeriesFingerprint], profile.Samples)]]

\* labelCache.rewriteLabels: the label pairs of one sample, interned by
\* their per-profile string IDs: [cache, labels]. A translation that
\* panics leaves no cache entry.
rewriteLabels(cache, t, in) ==
    IF Len(in) = 0 THEN [cache |-> cache, labels |-> <<>>]
    ELSE IF in \in DOMAIN cache THEN [cache |-> cache, labels |-> cache[in]]
    ELSE LET out == [i \in 1..Len(in) |->
                        [Key |-> rewriteId(t, in[i].Key), Str |-> rewriteId(t, in[i].Str)]]
         IN [cache |-> IF labelsPanic(out) THEN cache ELSE cache @@ (in :> out),
             labels |-> out]

-----------------------------------------------------------------------------
(* Head.Ingest, one table at a time *)

\* model.TimeFromUnixNano: nanoseconds to milliseconds; Go's integer division
\* truncates toward zero
TimeFromUnixNano(ns) ==
    IF ns >= 0 THEN ns \div NanosPerMilli ELSE -((-ns) \div NanosPerMilli)

\* what h.totalSamples grows by per Ingest call
sampleSize == 1

\* The state of one Ingest call: its arguments (in: the profile p, the
\* metric name of the external labels, failAt, the table whose ingest
\* returns an error in this call, or "none", and failType, the value type
\* whose row the profiles table fails at; id: the uuid), the rewriter,
\* and the locals of Ingest and convertSamples (labels: the labels of the
\* samples converted so far; profile: the row in hand, if any; row: its
\* position in the profiles table).
NewCall(in, id) ==
    [pc |-> "strings", in |-> in, id |-> id, rewrites |-> EmptyRewriter,
     labels |-> <<>>, samplesPerType |-> <<>>, idxType |-> 1, profile |-> <<>>,
     row |-> 0, profileIngested |-> FALSE, err |-> "running"]

\* return err
Return(H, c, err) == [H |-> H, c |-> [c EXCEPT !.pc = "done", !.err = err]]

\* h.strings.ingest(ctx, p.StringTable, rewrites), head.go:288
IngestStrings(H, c) ==
    IF c.in.failAt = "strings" THEN Return(H, c, "error")
    ELSE LET elems == c.in.p.StringTable
             keys  == [i \in 1..Len(elems) |-> stringsKey(elems[i])]
             r     == tableIngest(H.strings, elems, keys)
         IN [H |-> [H EXCEPT !.strings = r.tbl],
             c |-> [c EXCEPT !.pc = "mappings", !.rewrites.strings = r.conv]]

\* h.mappings.ingest(ctx, p.Mapping, rewrites), head.go:292
IngestMappings(H, c) ==
    LET elems == [i \in 1..Len(c.in.p.Mapping) |-> mappingsRewrite(c.rewrites, c.in.p.Mapping[i])]
        keys  == [i \in 1..Len(elems) |-> tupleKey(elems[i])]
        r     == tableIngest(H.mappings, elems, keys)
    IN IF c.in.failAt = "mappings" THEN Return(H, c, "error")
       ELSE IF \E i \in 1..Len(elems) : mappingPanics(elems[i]) THEN Return(H, c, "panic")
       ELSE [H |-> [H EXCEPT !.mappings = r.tbl],
             c |-> [c EXCEPT !.pc = "functions", !.rewrites.mappings = r.conv]]

\* mutant: the error of the functions table is dropped
IngestFunctionsDropError(H, c) ==
    LET elems == [i \in 1..Len(c.in.p.Function) |-> functionsRewrite(c.rewrites, c.in.p.Function[i])]
        keys  == [i \in 1..Len(elems) |-> tupleKey(elems[i])]
        r     == tableIngest(H.functions, elems, keys)
    IN [H |-> [H EXCEPT !.functions = r.tbl],
        c |-> [c EXCEPT !.pc = "locations", !.rewrites.functions = r.conv]]

\* h.functions.ingest(ctx, p.Function, rewrites), head.go:296
IngestFunctions(H, c) ==
    LET elems == [i \in 1..Len(c.in.p.Function) |-> functionsRewrite(c.rewrites, c.in.p.Function[i])]
        keys  == [i \in 1..Len(elems) |-> tupleKey(elems[i])]
        r     == tableIngest(H.functions, elems, keys)
    IN IF c.in.failAt = "functions" THEN Return(H, c, "error")
       ELSE IF \E i \in 1..Len(elems) : functionPanics(elems[i]) THEN Return(H, c, "panic")
       ELSE [H |-> [H EXCEPT !.functions = r.tbl],
             c |-> [c EXCEPT !.pc = "locations", !.rewrites.functions = r.conv]]

\* h.locations.ingest(ctx, p.Location, rewrites), head.go:300
IngestLocations(H, c) ==
    LET elems == [i \in 1..Len(c.in.p.Location) |-> locationsRewrite(c.rewrites, c.in.p.Location[i])]
        keys  == [i \in 1..Len(elems) |-> tupleKey(elems[i])]
        r     == tableIngest(H.locations, elems, keys)
    IN IF c.in.failAt = "locations" THEN Return(H, c, "error")
       ELSE IF \E i \in 1..Len(elems) : locationPanics(elems[i]) THEN Return(H, c, "panic")
       ELSE [H |-> [H EXCEPT !.locations = r.tbl],
             c |-> [c EXCEPT !.pc = "labels", !.rewrites.locations = r.conv]]

\* mutant: every stacktrace is built from the first sample
sampleStacktracesFirst(in) == [i \in 1..Len(in) |-> [LocationIDs |-> in[1].LocationId]]

\* the stacktraces convertSamples builds, one per sample, head.go:259
sampleStacktraces(in) == [i \in 1..Len(in) |-> [LocationIDs |-> in[i].LocationId]]

\* mutant: every row takes the values of the first value type
samplesOutFirstType(in, labels, conv) ==
    [t \in 1..Len(in[1].Value) |->
        [i \in 1..Len(in) |->
            [StacktraceID |-> mapIndex(conv, i - 1), Value |-> in[i].Value[1], Labels |-> labels[i]]]]

\* the rows of head.go:252 with the stacktrace IDs of head.go:274: out[idxType][idxSample]
samplesOut(in, labels, conv) ==
    [t \in 1..Len(in[1].Value) |->
        [i \in 1..Len(in) |->
            [StacktraceID |-> mapIndex(conv, i - 1), Value |-> in[i].Value[t], Labels |-> labels[i]]]]

\* after iteration idxType of the loop of head.go:310: the next iteration,
\* or head.go:338, which returns nil when no row was ingested
AfterProfile(H, c) ==
    IF c.idxType <= Len(c.samplesPerType) THEN [H |-> H, c |-> [c EXCEPT !.pc = "delta"]]
    ELSE IF ~c.profileIngested THEN Return(H, c, "nil")
    ELSE [H |-> H, c |-> [c EXCEPT !.pc = "meta"]]

\* Head.convertSamples up to the stacktraces' ingest, head.go:234-262 (called
\* at head.go:304): without samples it returns nil at once; else one
\* iteration of its first loop, the labels of sample Len(c.labels) + 1
\* through the label cache
ConvertLabels(H, c) ==
    LET in == c.in.p.Sample IN
    IF Len(in) = 0 THEN Return(H, c, "nil")
    ELSE LET r  == rewriteLabels(H.pprofLabelCache, c.rewrites.strings, in[Len(c.labels) + 1].Label)
             H1 == [H EXCEPT !.pprofLabelCache = r.cache]
             c1 == [c EXCEPT !.labels = Append(c.labels, r.labels)]
         IN IF labelsPanic(r.labels) THEN Return(H1, c, "panic")
            ELSE [H |-> H1,
                  c |-> IF Len(c1.labels) = Len(in) THEN [c1 EXCEPT !.pc = "stacktraces"] ELSE c1]

\* Head.convertSamples from the stacktraces' ingest on, head.go:264-278:
\* h.stacktraces.ingest under the table's lock, then the stacktrace IDs of
\* the rows, which are the call's own
ConvertSamples(H, c) ==
    LET in    == c.in.p.Sample
        elems == [i \in 1..Len(in) |-> stacktracesRewrite(c.rewrites, sampleStacktraces(in)[i])]
        keys  == [i \in 1..Len(elems) |-> stacktracesKey(elems[i])]
        r     == tableIngest(H.stacktraces, elems, keys)
    IN IF c.in.failAt = "stacktraces" THEN Return(H, c, "error")
       ELSE IF \E i \in 1..Len(elems) : stacktracePanics(elems[i]) THEN Return(H, c, "panic")
       ELSE AfterProfile([H EXCEPT !.stacktraces = r.tbl],
                         [c EXCEPT !.rewrites.stacktraces = r.conv, !.labels = <<>>,
                                   !.samplesPerType = samplesOut(in, c.labels, r.conv)])

\* the row of head.go:311-321
newProfile(c, lbs) ==
    [ID |-> c.id, SeriesFingerprint |-> fingerprint(lbs),
     Samples |-> c.samplesPerType[c.idxType], TimeNanos |-> c.in.p.TimeNanos]

\* mutant: the row the delta engine dropped is kept
ComputeDeltaKeepDropped(H, c) ==
    LET lbs == labelsForProfile(c.in.p, c.in.name, c.idxType)
        d   == computeDelta(H.delta, newProfile(c, lbs), lbs)
    IN [H |-> [H EXCEPT !.delta = d.delta],
        c |-> [c EXCEPT !.pc = "profiles", !.profile = <<d.profile>>]]

\* head.go:310-327: the row of value type idxType goes through
\* h.delta.computeDelta; a nil result goes on to the next value type
ComputeDelta(H, c) ==
    LET lbs == labelsForProfile(c.in.p, c.in.name, c.idxType)
        d   == computeDelta(H.delta, newProfile(c, lbs), lbs)
        H1  == [H EXCEPT !.delta = d.delta]
    IN IF d.dropped THEN AfterProfile(H1, [c EXCEPT !.idxType = c.idxType + 1])
       ELSE [H |-> H1, c |-> [c EXCEPT !.pc = "profiles", !.profile = <<d.profile>>]]

\* h.profiles.ingest(ctx, []*schemav1.Profile{profile}, rewrites): no key,
\* the row is appended
profilesIngest(tbl, profile) ==
    [tbl EXCEPT !.slice = Append(tbl.slice, profile), !.size = tbl.size + elementSize]

\* head.go:329-331, in iteration idxType of the loop over the value types:
\* the row goes to the profiles table, under its lock, and row is its
\* position there; an error of the table is returned at once, the rows and
\* index entries of earlier iterations being stored already
IngestProfile(H, c) ==
    IF c.in.failAt = "profiles" /\ c.idxType = c.in.failType THEN Return(H, c, "error")
    ELSE [H |-> [H EXCEPT !.profiles = profilesIngest(H.profiles, c.profile[1])],
          c |-> [c EXCEPT !.pc = "index", !.row = Len(H.profiles.slice)]]

\* head.go:333-335: h.index.Add, and the end of the loop's iteration
IndexAdd(H, c) ==
    AfterProfile(
        [H EXCEPT !.index = indexAdd(H.index, c.profile[1].SeriesFingerprint,
                                     [row |-> c.row,
                                      ts |-> TimeFromUnixNano(c.profile[1].TimeNanos)])],
        [c EXCEPT !.profileIngested = TRUE, !.idxType = c.idxType + 1,
                  !.profile = <<>>, !.row = 0])

\* mutant: the time range becomes the time of the latest profile
UpdateMetaOverwrite(H, c) ==
    LET v == TimeFromUnixNano(c.in.p.TimeNanos) IN
    [H |-> [H EXCEPT !.meta.MinTime = v, !.meta.MaxTime = v],
     c |-> [c EXCEPT !.pc = "samples"]]

\* head.go:342-350: the metadata's time range, under h.metaLock
UpdateMeta(H, c) ==
    LET v == TimeFromUnixNano(c.in.p.TimeNanos) IN
    [H |-> [H EXCEPT !.meta.MinTime = IF v < H.meta.MinTime THEN v ELSE H.meta.MinTime,
                     !.meta.MaxTime = IF v > H.meta.MaxTime THEN v ELSE H.meta.MaxTime],
     c |-> [c EXCEPT !.pc = "samples"]]

\* head.go:352-357: h.totalSamples.Add(sampleSize), and return nil
AddSamples(H, c) ==
    Return([H EXCEPT !.totalSamples = H.totalSamples + sampleSize], c, "nil")

\* the next step of an Ingest call: one table's ingest under that table's
\* lock, one sample's labels through the label cache, the delta engine, the
\* series index, the metadata under metaLock, the samples counter
IngestStep(H, c) ==
    CASE c.pc = "strings"     -> IngestStrings(H, c)
      [] c.pc = "mappings"    -> IngestMappings(H, c)
      [] c.pc = "functions"   -> IngestFunctions(H, c)
      [] c.pc = "locations"   -> IngestLocations(H, c)
      [] c.pc = "labels"      -> ConvertLabels(H, c)
      [] c.pc = "stacktraces" -> ConvertSamples(H, c)
      [] c.pc = "delta"       -> ComputeDelta(H, c)
      [] c.pc = "profiles"    -> IngestProfile(H, c)
      [] c.pc = "index"       -> IndexAdd(H, c)
      [] c.pc = "meta"        -> UpdateMeta(H, c)
      [] c.pc = "samples"     -> AddSamples(H, c)

RECURSIVE IngestRun(_, _)
\* Head.Ingest from c to its return, head.go:281-358
IngestRun(H, c) ==
    IF c.pc = "done" THEN [H |-> H, c |-> c]
    ELSE LET s == IngestStep(H, c) IN IngestRun(s.H, s.c)

-----------------------------------------------------------------------------
(* The profiles the model ingests *)

TNeg == -1500000  \* before the epoch: -1 ms after truncation toward zero
T0 == 1500000   \* 1 ms after truncation
T1 == 2000000   \* 2 ms
T2 == 3500000   \* 3 ms

\* The numberings of one and the same content: 1 is the base; 2 has the
\* strings "a" and "b" exchanged in the string table; 3 has the strings, the
\* two functions and the two locations exchanged.
strTable(n, typ) == IF n = 1 THEN <<"", "a", "b", typ>> ELSE <<"", "b", "a", typ>>

\* the per-profile IDs of string s, of the function named s, of its location
strId(n, s) ==
    CASE s = ""  -> 0
      [] s = "a" -> IF n = 1 THEN 1 ELSE 2
      [] s = "b" -> IF n = 1 THEN 2 ELSE 1
fnId(n, s)  == IF (s = "a") = (n # 3) THEN 0 ELSE 1
locId(n, s) == fnId(n, s)

fnOf(n, s) ==
    [Name |-> strId(n, s), SystemName |-> strId(n, s), Filename |-> strId(n, "b"),
     StartLine |-> IF s = "a" THEN 1 ELSE 7]
locOf(n, s) ==
    [MappingId |-> 0, Address |-> IF s = "a" THEN 16 ELSE 32,
     Line |-> <<[FunctionId |-> fnId(n, s), Line |-> IF s = "a" THEN 3 ELSE 9]>>]

\* a sample: its stack (function names, leaf first), value, label pairs
smp(stack, v, lbl) == [stack |-> stack, v |-> v, lbl |-> lbl]

\* A pprof profile in numbering n with one mapping, the functions "a" and
\* "b", one location in each, one value type typ, and the given samples.
pprof(n, typ, samples, time) ==
    [StringTable |-> strTable(n, typ),
     Mapping     |-> <<[MemoryStart |-> 0, Filename |-> strId(n, "b"), BuildId |-> 0]>>,
     Function    |-> IF n = 3 THEN <<fnOf(n, "b"), fnOf(n, "a")>>
                              ELSE <<fnOf(n, "a"), fnOf(n, "b")>>,
     Location    |-> IF n = 3 THEN <<locOf(n, "b"), locOf(n, "a")>>
                              ELSE <<locOf(n, "a"), locOf(n, "b")>>,
     Sample      |-> [i \in 1..Len(samples) |->
                        [LocationId |-> [k \in 1..Len(samples[i].stack) |->
                                            locId(n, samples[i].stack[k])],
                         Value |-> <<samples[i].v>>,
                         Label |-> [k \in 1..Len(samples[i].lbl) |->
                                      [Key |-> strId(n, samples[i].lbl[k][1]),
                                       Str |-> strId(n, samples[i].lbl[k][2])]]]],
     SampleType  |-> <<[Type |-> 3, Unit |-> strId(n, "b")]>>,
     PeriodType  |-> <<[Type |-> strId(n, "b"), Unit |-> strId(n, "a")]>>,
     TimeNanos   |-> time]

\* a sample with two values
smp2(stack, v, w) == [stack |-> stack, v |-> v, lbl |-> <<>>, w |-> w]

\* a profile of two value types, "cpu" and "wall", in numbering n
pprof2(n, samples, time) ==
    [pprof(n, "cpu", samples, time) EXCEPT
        !.StringTable = Append(@, "wall"),
        !.SampleType  = Append(@, [Type |-> 4, Unit |-> strId(n, "b")]),
        !.Sample      = [i \in 1..Len(samples) |->
                            [@[i] EXCEPT !.Value = <<samples[i].v, samples[i].w>>]]]

SamplesAB == <<smp(<<"a">>, 5, <<>>), smp(<<"b", "a">>, 7, <<>>)>>
SamplesBA == <<smp(<<"b", "a">>, 7, <<>>), smp(<<"a">>, 5, <<>>)>>

\* the frames of a stack of locations 0 and 1 in the numbering of a Head
\* that was given "a" before "b"
frames(st) == [i \in 1..Len(st) |-> IF st[i] = 0 THEN "a" ELSE "b"]

\* two samples whose stacktraces have one key in such a Head
SamplesColliding == <<smp(frames(CollidingA), 5, <<>>), smp(frames(CollidingB), 7, <<>>)>>

\* non-cumulative profiles: the three numberings, both sample orders, three
\* times, a zero value, no sample at all, two stacktraces of one key
CpuProfiles ==
    {pprof(n, "cpu", s, T1) : n \in {1, 2, 3}, s \in {SamplesAB, SamplesBA}}
    \cup {pprof(1, "cpu", <<smp(<<"b">>, 0, <<>>), smp(<<"b">>, 4, <<>>)>>, t) : t \in {T0, T2}}
    \cup {pprof(1, "cpu", <<>>, T0)}
    \cup {pprof(1, "cpu", SamplesColliding, T1)}

\* cumulative profiles of one series: growing, doubled, shrunk, a new stacktrace
AllocProfiles ==
    {pprof(1, "alloc_space", s, T2) :
        s \in {<<smp(<<"a">>, 5, <<>>)>>, <<smp(<<"a">>, 10, <<>>)>>,
               <<smp(<<"a">>, 3, <<>>), smp(<<"b", "a">>, 7, <<>>)>>}}

Tables == {"strings", "mappings", "functions", "locations", "stacktraces", "profiles"}

\* a profile of two value types, whose Ingest stores two rows
TwoTypes == pprof2(3, <<smp2(<<"a">>, 5, 1), smp2(<<"b", "a">>, 7, 2)>>, T0)

\* the arguments of an Ingest call, but for the uuid: profiles that are
\* ingested without error, a profile of one value type with an error at
\* each table, and a profile of two value types with an error of the
\* profiles table at its first and at its second value type
Inputs ==
    {[p |-> p, name |-> "app", failAt |-> "none", failType |-> 1] : p \in CpuProfiles \cup AllocProfiles}
    \cup {[p |-> pprof(3, "cpu", SamplesAB, T0), name |-> "app", failAt |-> t, failType |-> 1] : t \in Tables}
    \cup {[p |-> TwoTypes, name |-> "app", failAt |-> "profiles", failType |-> k] : k \in {1, 2}}

-----------------------------------------------------------------------------
(* State *)

HeadState ==
    [strings |-> strings, mappings |-> mappings, functions |-> functions,
     locations |-> locations, stacktraces |-> stacktraces, profiles |-> profiles,
     index |-> index, delta |-> delta, pprofLabelCache |-> pprofLabelCache,
     meta |-> meta, totalSamples |-> totalSamples]

\* the data variables take the value of H
SetHead(H) ==
    /\ strings' = H.strings
    /\ mappings' = H.mappings
    /\ functions' = H.functions
    /\ locations' = H.locations
    /\ stacktraces' = H.stacktraces
    /\ profiles' = H.profiles
    /\ index' = H.index
    /\ delta' = H.delta
    /\ pprofLabelCache' = H.pprofLabelCache
    /\ meta' = H.meta
    /\ totalSamples' = H.totalSamples

NoCall == [op |-> "none"]

\* block.NewMeta(): the time range is empty, no statistics, no files
NewMeta ==
    [MinTime |-> MaxTimeValue, MaxTime |-> 0,
     Stats |-> [NumSeries |-> 0, NumProfiles |-> 0, NumSamples |-> 0], Files |-> <<>>]

\* a directory that does not exist
NoDir == [exists |-> FALSE, files |-> EmptyMap]

\* h.tables, in the order NewHead gives them, head.go:164-171
TableOrder == <<"strings", "mappings", "functions", "locations", "stacktraces", "profiles">>

\* block.IndexFilename, block.MetaFilename, t.Name() + block.ParquetSuffix
IndexFilename == "index.tsdb"
MetaFilename  == "meta.json"
ParquetFile(T) ==
    CASE T = "strings"     -> "strings.parquet"
      [] T = "mappings"    -> "mappings.parquet"
      [] T = "functions"   -> "functions.parquet"
      [] T = "locations"   -> "locations.parquet"
      [] T = "stacktraces" -> "stacktraces.parquet"
      [] T = "profiles"    -> "profiles.parquet"

\* a table's file as t.Init creates it: nothing written yet
NewFile == [written |-> FALSE, NumRows |-> 0, doc |-> <<>>]

\* The disk after NewHead, head.go:151-177: headPath exists (os.MkdirAll)
\* and holds the file of every table (t.Init); nothing is under localPath.
NewDisk ==
    [headPath    |-> [exists |-> TRUE,
                      files  |-> [f \in {ParquetFile(TableOrder[i]) : i \in 1..Len(TableOrder)}
                                    |-> NewFile]],
     localParent |-> FALSE,
     localPath   |-> NoDir]

\* NewHead, head.go:137-191
Init ==
    /\ strings = EmptyTable
    /\ mappings = EmptyTable
    /\ functions = EmptyTable
    /\ locations = EmptyTable
    /\ stacktraces = EmptyTable
    /\ profiles = EmptyTable
    /\ index = EmptyIndex
    /\ delta = EmptyMap
    /\ pprofLabelCache = EmptyMap
    /\ meta = NewMeta
    /\ totalSamples = 0
    /\ stopCh = "open"
    /\ flushCh = "open"
    /\ timer = "armed"
    /\ tick = "empty"
    /\ loopPc = "select"
    /\ closePc = "idle"
    /\ flushed = FALSE
    /\ disk = NewDisk
    /\ ncalls = 0
    /\ last = NoCall
    /\ procs = EmptyMap

\* Head.Ingest as one call, head.go:281-358; the uuid is the call's number
Ingest(in) ==
    LET r == IngestRun(HeadState, NewCall(in, ncalls)) IN
    /\ SetHead(r.H)
    /\ ncalls' = ncalls + 1
    /\ last' = [op |-> "Ingest", in |-> r.c.in, err |-> r.c.err, rewrites |-> r.c.rewrites]

\* The sequential specification: Ingest calls one after the other
SeqIngest ==
    /\ ncalls < MaxCalls
    /\ \E in \in Inputs : Ingest(in)
    /\ UNCHANGED <<loopVars, flushed, disk, procs>>

Next == SeqIngest

Spec == Init /\ [][Next]_vars

-----------------------------------------------------------------------------
(* What the stored IDs denote *)

ValidId(tbl, id) == id \in 0..(Len(tbl.slice) - 1)

\* the strings a stored mapping / function refers to, through the Head's tables
HeadMapping(id) ==
    LET m == mappings.slice[id + 1] IN
    [m EXCEPT !.Filename = strings.slice[m.Filename + 1],
              !.BuildId  = strings.slice[m.BuildId + 1]]
HeadFunction(id) ==
    LET f == functions.slice[id + 1] IN
    [f EXCEPT !.Name       = strings.slice[f.Name + 1],
              !.SystemName = strings.slice[f.SystemName + 1],
              !.Filename   = strings.slice[f.Filename + 1]]
HeadLocation(id) ==
    LET l == locations.slice[id + 1] IN
    [l EXCEPT !.MappingId = HeadMapping(l.MappingId),
              !.Line = [i \in 1..Len(l.Line) |->
                          [l.Line[i] EXCEPT !.FunctionId = HeadFunction(l.Line[i].FunctionId)]]]
HeadStacktrace(id) ==
    LET st == stacktraces.slice[id + 1].LocationIDs IN
    [i \in 1..Len(st) |-> HeadLocation(st[i])]

\* the same, for a per-profile ID, through the profile's own tables
ProfMapping(p, id) ==
    LET m == p.Mapping[id + 1] IN
    [m EXCEPT !.Filename = stringAt(p, m.Filename), !.BuildId = stringAt(p, m.BuildId)]
ProfFunction(p, id) ==
    LET f == p.Function[id + 1] IN
    [f EXCEPT !.Name = stringAt(p, f.Name), !.SystemName = stringAt(p, f.SystemName),
              !.Filename = stringAt(p, f.Filename)]
ProfLocation(p, id) ==
    LET l == p.Location[id + 1] IN
    [l EXCEPT !.MappingId = ProfMapping(p, l.MappingId),
              !.Line = [i \in 1..Len(l.Line) |->
                          [l.Line[i] EXCEPT !.FunctionId = ProfFunction(p, l.Line[i].FunctionId)]]]
ProfStacktrace(p, locs) == [i \in 1..Len(locs) |-> ProfLocation(p, locs[i])]

\* every reference stored in the Head is a Head ID of the table it refers to
StoredRefsValid ==
    /\ \A i \in 1..Len(mappings.slice) :
          /\ ValidId(strings, mappings.slice[i].Filename)
          /\ ValidId(strings, mappings.slice[i].BuildId)
    /\ \A i \in 1..Len(functions.slice) :
          /\ ValidId(strings, functions.slice[i].Name)
          /\ ValidId(strings, functions.slice[i].SystemName)
          /\ ValidId(strings, functions.slice[i].Filename)
    /\ \A i \in 1..Len(locations.slice) :
          /\ ValidId(mappings, locations.slice[i].MappingId)
          /\ \A k \in 1..Len(locations.slice[i].Line) :
                ValidId(functions, locations.slice[i].Line[k].FunctionId)
    /\ \A i \in 1..Len(stacktraces.slice) :
          \A k \in 1..Len(stacktraces.slice[i].LocationIDs) :
                ValidId(locations, stacktraces.slice[i].LocationIDs[k])
    /\ \A i \in 1..Len(profiles.slice) :
          \A k \in 1..Len(profiles.slice[i].Samples) :
                ValidId(stacktraces, profiles.slice[i].Samples[k].StacktraceID)

\* the Head IDs the latest Ingest call published denote, in the Head, what
\* the per-profile IDs denote in its profile
LastCallSameEntities ==
    LET p == last.in.p
        r == last.rewrites
    IN /\ \A i \in DOMAIN r.strings :
             ValidId(strings, r.strings[i]) /\ strings.slice[r.strings[i] + 1] = stringAt(p, i)
       /\ \A i \in DOMAIN r.mappings :
             ValidId(mappings, r.mappings[i]) /\ HeadMapping(r.mappings[i]) = ProfMapping(p, i)
       /\ \A i \in DOMAIN r.functions :
             ValidId(functions, r.functions[i]) /\ HeadFunction(r.functions[i]) = ProfFunction(p, i)
       /\ \A i \in DOMAIN r.locations :
             ValidId(locations, r.locations[i]) /\ HeadLocation(r.locations[i]) = ProfLocation(p, i)
       /\ \A i \in DOMAIN r.stacktraces :
             /\ ValidId(stacktraces, r.stacktraces[i])
             /\ HeadStacktrace(r.stacktraces[i]) = ProfStacktrace(p, p.Sample[i + 1].LocationId)

\* the rows the latest Ingest call stored: sample k of each refers to the
\* stacktrace of sample k of its profile
LastCallRows ==
    \A i \in 1..Len(profiles.slice) :
        profiles.slice[i].ID = ncalls - 1 =>
           /\ Len(profiles.slice[i].Samples) = Len(last.in.p.Sample)
           /\ \A k \in 1..Len(last.in.p.Sample) :
                 HeadStacktrace(profiles.slice[i].Samples[k].StacktraceID)
                     = ProfStacktrace(last.in.p, last.in.p.Sample[k].LocationId)

\* C4 as stated. DAG safety: after an Ingest call has returned, every
\* reference stored in the Head (string IDs of mappings and functions,
\* mapping and function IDs of locations, location IDs of stacktraces,
\* stacktrace IDs of samples) is a valid Head ID of the table referred to, and
\* the Head IDs the call assigned and stored denote the entities the
\* per-profile IDs denoted in the ingested profile.
C4_DagSafetyAllEntities ==
    /\ StoredRefsValid
    /\ last.op = "Ingest" => LastCallSameEntities /\ LastCallRows

\* the stacktrace of sample i (from 0) of p with its location IDs rewritten
OwnStacktrace(p, r, i) ==
    [LocationIDs |-> rewriteIds(r.locations, p.Sample[i + 1].LocationId)]

\* strings, mappings, functions, locations: the Head IDs the latest Ingest
\* call published denote what the per-profile IDs denote in its profile
LastCallSameDependents ==
    LET p == last.in.p
        r == last.rewrites
    IN /\ \A i \in DOMAIN r.strings :
             ValidId(strings, r.strings[i]) /\ strings.slice[r.strings[i] + 1] = stringAt(p, i)
       /\ \A i \in DOMAIN r.mappings :
             ValidId(mappings, r.mappings[i]) /\ HeadMapping(r.mappings[i]) = ProfMapping(p, i)
       /\ \A i \in DOMAIN r.functions :
             ValidId(functions, r.functions[i]) /\ HeadFunction(r.functions[i]) = ProfFunction(p, i)
       /\ \A i \in DOMAIN r.locations :
             ValidId(locations, r.locations[i]) /\ HeadLocation(r.locations[i]) = ProfLocation(p, i)

\* stacktraces: the Head ID of each sample is the ID of a stored stacktrace
\* that has the key of the sample's own stacktrace and, when it has its
\* locations too, denotes the same frames; every row of the call stores
\* these IDs, sample by sample
LastCallSameKeys ==
    LET p == last.in.p
        r == last.rewrites
    IN /\ \A i \in DOMAIN r.stacktraces :
             /\ ValidId(stacktraces, r.stacktraces[i])
             /\ stacktracesKey(stacktraces.slice[r.stacktraces[i] + 1])
                    = stacktracesKey(OwnStacktrace(p, r, i))
             /\ stacktraces.slice[r.stacktraces[i] + 1] = OwnStacktrace(p, r, i)
                    => HeadStacktrace(r.stacktraces[i])
                           = ProfStacktrace(p, p.Sample[i + 1].LocationId)
       /\ \A i \in 1..Len(profiles.slice) :
             profiles.slice[i].ID = ncalls - 1 =>
                /\ Len(profiles.slice[i].Samples) = Len(p.Sample)
                /\ \A k \in 1..Len(p.Sample) :
                      profiles.slice[i].Samples[k].StacktraceID = r.stacktraces[k - 1]

\* the returning Ingest call gave sample i the ID of its own stacktrace,
\* unless a stacktrace of other locations with the same key was stored
\* before the call or belongs to an earlier sample of the profile
OwnStacktraceUnlessCollision(i) ==
    LET p   == last'.in.p
        r   == last'.rewrites
        id  == r.stacktraces[i]
        own == OwnStacktrace(p, r, i)
    IN stacktraces'.slice[id + 1] # own =>
          \/ /\ id < Len(stacktraces.slice)
             /\ stacktraces.slice[id + 1] = stacktraces'.slice[id + 1]
          \/ \E j \in 0..(i - 1) :
                /\ r.stacktraces[j] = id
                /\ OwnStacktrace(p, r, j) = stacktraces'.slice[id + 1]

\* C4 amended. DAG safety: after an Ingest call has returned, every
\* reference stored in the Head is a valid Head ID of the table referred to.
\* The Head IDs the call assigned to strings, mappings, functions and
\* locations denote the entities the per-profile IDs denoted in the ingested
\* profile. The stacktrace ID a sample is stored with is the ID of a stored
\* stacktrace that has the same key (the 64-bit digest of its Head location
\* IDs) as the sample's own stacktrace: it is the sample's own stacktrace
\* unless a stacktrace of other locations with that key was stored first.
C4_DagSafety ==
    /\ [](StoredRefsValid /\ (last.op = "Ingest" => LastCallSameDependents /\ LastCallSameKeys))
    /\ [][ncalls' = ncalls + 1 /\ last'.op = "Ingest"
             => \A i \in DOMAIN last'.rewrites.stacktraces : OwnStacktraceUnlessCollision(i)
         ]_vars

\* C4 witness: a profile whose own numbering differs from the Head's has
\* been ingested and a row of it is stored; its two samples have stacktraces
\* of different locations and one key, and are stored with one stacktrace ID.
C4_Witness ==
    /\ last.op = "Ingest" /\ last.err = "nil"
    /\ \E i \in DOMAIN last.rewrites.strings : last.rewrites.strings[i] # i
    /\ \E i \in 1..Len(profiles.slice) :
          /\ profiles.slice[i].ID = ncalls - 1
          /\ Len(profiles.slice[i].Samples) = 2
          /\ profiles.slice[i].Samples[1].StacktraceID = profiles.slice[i].Samples[2].StacktraceID
    /\ OwnStacktrace(last.in.p, last.rewrites, 0) # OwnStacktrace(last.in.p, last.rewrites, 1)

-----------------------------------------------------------------------------
(* Numbering, deltas, sample order *)

\* the inputs whose Ingest calls meet no error
GoodInputs == {in \in Inputs : in.failAt = "none"}

\* the rewriter Ingest would end with, called now on q
RewriterOf(q) == IngestRun(HeadState, NewCall(q, ncalls)).c.rewrites

\* C5. Per-profile numbering does not affect deduplication: when a profile p
\* has been ingested, a profile q ingested next is given, for every function
\* and every sample stacktrace that denotes the same entity as one of p, the
\* Head ID that p's was given, however q numbers its strings, functions and
\* locations.
C5_NumberingIndependent ==
    (last.op = "Ingest" /\ last.err = "nil") =>
        \A q \in GoodInputs :
            LET p  == last.in.p
                r  == last.rewrites
                r2 == RewriterOf(q)
            IN /\ \A i \in DOMAIN r.functions : \A j \in DOMAIN r2.functions :
                     ProfFunction(p, i) = ProfFunction(q.p, j)
                         => r.functions[i] = r2.functions[j]
               /\ \A i \in DOMAIN r.stacktraces : \A j \in DOMAIN r2.stacktraces :
                     ProfStacktrace(p, p.Sample[i + 1].LocationId)
                            = ProfStacktrace(q.p, q.p.Sample[j + 1].LocationId)
                         => r.stacktraces[i] = r2.stacktraces[j]

\* C5 witness: the profile ingested last lists "a" before "b" and its
\* function "a" first, and stored stacktraces; an input with the same
\* content lists "b" before "a" and the function "b" first.
C5_Witness ==
    /\ last.op = "Ingest" /\ last.err = "nil"
    /\ last.in.p = pprof(1, "cpu", SamplesAB, T1)
    /\ DOMAIN last.rewrites.stacktraces = {0, 1}
    /\ \E q \in GoodInputs :
          /\ q.p.StringTable # last.in.p.StringTable
          /\ q.p.Function # last.in.p.Function
          /\ ProfFunction(q.p, 1) = ProfFunction(last.in.p, 0)
          /\ RewriterOf(q).functions[1] = last.rewrites.functions[0]

\* the samples of the row sample type 1 of in yields, before the delta engine
RowSamples(in, conv) ==
    [i \in 1..Len(in.p.Sample) |->
        [StacktraceID |-> conv[i - 1], Value |-> in.p.Sample[i].Value[1], Labels |-> <<>>]]

\* the value the delta engine's contract gives sample s against baseline base
DeltaValue(base, s) ==
    LET m == {b \in Range(base) : b.StacktraceID = s.StacktraceID /\ b.Labels = s.Labels}
    IN IF m = {} THEN s.Value
       ELSE LET b == CHOOSE b \in m : TRUE
            IN IF s.Value - b.Value > 0 THEN s.Value - b.Value ELSE 0

\* an Ingest call that returned nil on a profile with samples
IngestedSamples ==
    /\ ncalls' = ncalls + 1
    /\ last'.op = "Ingest" /\ last'.err = "nil"
    /\ Len(last'.in.p.Sample) > 0

\* C7. Delta engine: an Ingest call of a cumulative type stores no row when
\* its series has no baseline yet, and the profile becomes the baseline;
\* otherwise it stores one row whose samples are those of the profile with
\* value max(0, value - baseline value) where the baseline has a sample of
\* the same stacktrace ID and labels, and with their own value where it has
\* none (so no value is negative and nothing is emitted for a baseline sample
\* without match). A call of a non-cumulative type stores its row unchanged.
C7_Delta ==
    [][IngestedSamples =>
        LET in   == last'.in
            lbs  == labelsForProfile(in.p, in.name, 1)
            fp   == fingerprint(lbs)
            raw  == RowSamples(in, last'.rewrites.stacktraces)
            row(samples) == [ID |-> ncalls, SeriesFingerprint |-> fp,
                             Samples |-> samples, TimeNanos |-> in.p.TimeNanos]
        IN IF lbs.type \notin CumulativeTypes
           THEN profiles'.slice = Append(profiles.slice, row(raw)) /\ delta' = delta
           ELSE IF fp \notin DOMAIN delta
           THEN profiles'.slice = profiles.slice /\ delta'[fp] = raw
           ELSE /\ profiles'.slice = Append(profiles.slice,
                      row([i \in 1..Len(raw) |->
                             [raw[i] EXCEPT !.Value = DeltaValue(delta[fp], raw[i])]]))
                /\ \A i \in 1..Len(raw) : profiles'.slice[Len(profiles'.slice)].Samples[i].Value >= 0
                /\ delta'[fp] = raw
      ]_vars

\* C7 witness: a cumulative series has two profiles ingested, stacktrace "a"
\* with 5 and then with 10: the first is not stored, the second is stored
\* with value 5, and the baseline is now 10.
C7_Witness ==
    /\ ncalls = 2 /\ last.op = "Ingest" /\ last.err = "nil"
    /\ last.in.p \in AllocProfiles
    /\ Len(profiles.slice) = 1
    /\ profiles.slice[1].ID = 1
    /\ last.in.p.Sample[1].Value[1] = 10
    /\ profiles.slice[1].Samples[1].Value = 5
    /\ \A fp \in DOMAIN delta : delta[fp][1].Value = 10

\* p with its samples i and j exchanged
swapSamples(in, i, j) ==
    [in EXCEPT !.p.Sample = [k \in 1..Len(in.p.Sample) |->
        IF k = i THEN in.p.Sample[j] ELSE IF k = j THEN in.p.Sample[i] ELSE in.p.Sample[k]]]

swapped(i, j, k) == IF k = i THEN j ELSE IF k = j THEN i ELSE k

\* an Ingest call that reached the stacktraces table
IngestedStacktraces ==
    /\ ncalls' = ncalls + 1
    /\ last'.op = "Ingest" /\ last'.err = "nil"
    /\ Len(last'.in.p.Sample) > 1

\* C8 as stated. Stack-trace key stability: ingesting, from the same Head
\* state, the profile with two of its samples exchanged assigns every
\* stacktrace the Head ID this call assigned to it.
C8_SampleOrderAllIds ==
    [][IngestedStacktraces =>
        \A i, j \in 1..Len(last'.in.p.Sample) :
            LET r1 == last'.rewrites.stacktraces
                r2 == RewriterOf(swapSamples(last'.in, i, j)).stacktraces
            IN \A k \in 1..Len(last'.in.p.Sample) : r2[swapped(i, j, k) - 1] = r1[k - 1]
      ]_vars

\* C8 amended. Ingesting the profile with two of its samples exchanged gives
\* every stacktrace the same key, hence every stacktrace whose key was stored
\* before the call the Head ID this call gave it, and stores as many
\* stacktraces under the same keys; the IDs of stacktraces that are new, and
\* which of two new stacktraces of one key is stored, follow the sample order.
C8_SampleOrderStoredIds ==
    [][IngestedStacktraces =>
        \A i, j \in 1..Len(last'.in.p.Sample) :
            LET r1 == last'.rewrites.stacktraces
                sw == IngestRun(HeadState, NewCall(swapSamples(last'.in, i, j), ncalls))
                r2 == sw.c.rewrites.stacktraces
            IN /\ \A k \in 1..Len(last'.in.p.Sample) :
                     r1[k - 1] < Len(stacktraces.slice)
                         => r2[swapped(i, j, k) - 1] = r1[k - 1]
               /\ Len(sw.H.stacktraces.slice) = Len(stacktraces'.slice)
               /\ DOMAIN sw.H.stacktraces.lookup = DOMAIN stacktraces'.lookup
      ]_vars

\* C8 witness: the call ingested two samples of different stacktraces, one
\* stored before the call (ID 0) and one new.
C8_Witness ==
    /\ ncalls = 2 /\ last.op = "Ingest" /\ last.err = "nil"
    /\ Len(last.in.p.Sample) = 2
    /\ last.rewrites.stacktraces[0] = 1
    /\ last.rewrites.stacktraces[1] = 0
    /\ Len(stacktraces.slice) = 2
    /\ last.in.p.TimeNanos = T1

-----------------------------------------------------------------------------
(* Concurrent Ingest calls *)

\* the goroutines that call Ingest
Callers == {"c1", "c2"}

\* the profiles of the concurrent specification: two numberings, a
\* cumulative series, three times of which one is before the epoch, an
\* error in a late table
ConcInputs ==
    {[p |-> pprof(1, "cpu", SamplesAB, T1), name |-> "app", failAt |-> "none", failType |-> 1],
     [p |-> pprof(3, "cpu", SamplesBA, TNeg), name |-> "app", failAt |-> "none", failType |-> 1],
     [p |-> pprof(1, "alloc_space", <<smp(<<"a">>, 5, <<>>)>>, T2), name |-> "app", failAt |-> "none", failType |-> 1],
     [p |-> pprof(3, "cpu", SamplesAB, T0), name |-> "app", failAt |-> "stacktraces", failType |-> 1]}

Running == {id \in DOMAIN procs : procs[id].pc # "done"}

\* a caller calls Ingest: the call's number is its uuid
ConcStart ==
    /\ ncalls < MaxConcCalls
    /\ Cardinality(Running) < Cardinality(Callers)
    /\ \E in \in ConcInputs : procs' = procs @@ (ncalls :> NewCall(in, ncalls))
    /\ ncalls' = ncalls + 1
    /\ UNCHANGED <<dataVars, loopVars, flushed, disk, last>>

\* a call in flight takes its next step
ConcStep ==
    \E id \in Running :
        LET s == IngestStep(HeadState, procs[id]) IN
        /\ SetHead(s.H)
        /\ procs' = [procs EXCEPT ![id] = s.c]
        /\ UNCHANGED <<loopVars, flushed, disk, ncalls, last>>

NextConc == ConcStart \/ ConcStep

SpecConc == Init /\ [][NextConc]_vars

-----------------------------------------------------------------------------
(* Dedup, density, time range *)

DictTables == {"strings", "mappings", "functions", "locations", "stacktraces"}

TableOf(T) ==
    CASE T = "strings"     -> strings
      [] T = "mappings"    -> mappings
      [] T = "functions"   -> functions
      [] T = "locations"   -> locations
      [] T = "stacktraces" -> stacktraces

\* the helper key of a stored element
HelperKey(T, e) ==
    CASE T = "strings"     -> stringsKey(e)
      [] T = "stacktraces" -> stacktracesKey(e)
      [] OTHER             -> tupleKey(e)

StoredKey(T, i) == HelperKey(T, TableOf(T).slice[i])

\* the helper keys, after rewriting, of the elements call c has ingested into
\* table T so far, by per-profile ID
CallKeys(c, T) ==
    LET p == c.in.p
        r == c.rewrites
    IN CASE T = "strings" ->
              [i \in DOMAIN r.strings |-> stringsKey(stringAt(p, i))]
         [] T = "mappings" ->
              [i \in DOMAIN r.mappings |-> tupleKey(mappingsRewrite(r, p.Mapping[i + 1]))]
         [] T = "functions" ->
              [i \in DOMAIN r.functions |-> tupleKey(functionsRewrite(r, p.Function[i + 1]))]
         [] T = "locations" ->
              [i \in DOMAIN r.locations |-> tupleKey(locationsRewrite(r, p.Location[i + 1]))]
         [] T = "stacktraces" ->
              [i \in DOMAIN r.stacktraces |->
                  stacktracesKey(stacktracesRewrite(r, [LocationIDs |-> p.Sample[i + 1].LocationId]))]

\* the five dictionaries' backing sequences
Slices(H) == <<H.strings.slice, H.mappings.slice, H.functions.slice,
               H.locations.slice, H.stacktraces.slice>>

\* C2. Dedup: in every state of every interleaving of Ingest calls, no
\* dictionary table stores two elements of equal helper key; any two elements
\* ingested (by the same or by different calls) whose helper keys after
\* rewriting are equal have been given the same Head ID; and ingesting again
\* the payload of a call that returned nil adds nothing to the dictionaries.
C2_Dedup ==
    /\ \A T \in DictTables : \A i, j \in 1..Len(TableOf(T).slice) :
          StoredKey(T, i) = StoredKey(T, j) => i = j
    /\ \A T \in DictTables : \A a, b \in DOMAIN procs :
          \A i \in DOMAIN procs[a].rewrites[T] : \A j \in DOMAIN procs[b].rewrites[T] :
              CallKeys(procs[a], T)[i] = CallKeys(procs[b], T)[j]
                  => procs[a].rewrites[T][i] = procs[b].rewrites[T][j]
    /\ \A a \in DOMAIN procs :
          (procs[a].pc = "done" /\ procs[a].err = "nil") =>
              Slices(IngestRun(HeadState, NewCall(procs[a].in, ncalls)).H) = Slices(HeadState)

\* C2 witness: two calls with different numberings of the same content have
\* returned nil after interleaving: the strings are stored in the order of
\* the second call's table, the functions in the order of the first's.
C2_Witness ==
    /\ DOMAIN procs = {0, 1}
    /\ \A a \in {0, 1} : procs[a].pc = "done" /\ procs[a].err = "nil"
    /\ procs[0].in.p.StringTable = <<"", "a", "b", "cpu">>
    /\ procs[1].in.p.StringTable = <<"", "b", "a", "cpu">>
    /\ strings.slice = <<"", "b", "a", "cpu">>
    /\ functions.slice[1].StartLine = 1
    /\ Len(functions.slice) = 2 /\ Len(stacktraces.slice) = 2 /\ Len(profiles.slice) = 2

\* C3. Density: in every state of every interleaving of Ingest calls, those
\* that returned an error included, the Head IDs of each dictionary table
\* are exactly 0..|T|-1, the ID of each stored element is its position in the
\* backing sequence, no ID is used twice, and every ID a call was given is
\* one of them.
C3_Density ==
    \A T \in DictTables :
        LET tbl == TableOf(T) IN
        /\ Range(tbl.lookup) = 0..(Len(tbl.slice) - 1)
        /\ Cardinality(DOMAIN tbl.lookup) = Len(tbl.slice)
        /\ \A i \in 1..Len(tbl.slice) :
              StoredKey(T, i) \in DOMAIN tbl.lookup /\ tbl.lookup[StoredKey(T, i)] = i - 1
        /\ \A a \in DOMAIN procs : Range(procs[a].rewrites[T]) \subseteq 0..(Len(tbl.slice) - 1)

\* C3 witness: one call returned an error at the stacktraces table after its
\* inserts into the earlier tables, while another call was in flight that
\* had already inserted there.
C3_Witness ==
    /\ DOMAIN procs = {0, 1}
    /\ procs[0].pc = "done" /\ procs[0].err = "error"
    /\ procs[1].pc = "stacktraces"
    /\ strings.slice = <<"", "a", "b", "cpu">>
    /\ Len(locations.slice) = 2
    /\ locations.slice[1].Address = 32

\* row i of the profiles table lies in the metadata's time range
InTimeRange(i) ==
    /\ meta.MinTime <= TimeFromUnixNano(profiles.slice[i].TimeNanos)
    /\ TimeFromUnixNano(profiles.slice[i].TimeNanos) <= meta.MaxTime

\* C6 as stated. Time range: in every reachable state, those between a row
\* being added and the Ingest call returning included, every stored row's
\* time lies in [minTime, maxTime].
C6_TimeRangeAlways == \A i \in 1..Len(profiles.slice) : InTimeRange(i)

\* C6 amended. In every reachable state, every stored row of an Ingest call
\* that has returned nil has its time in [minTime, maxTime] (times in
\* milliseconds, as model.TimeFromUnixNano gives them).
C6_TimeRangeReturned ==
    \A i \in 1..Len(profiles.slice) :
        (\E a \in DOMAIN procs : /\ procs[a].id = profiles.slice[i].ID
                                 /\ procs[a].pc = "done" /\ procs[a].err = "nil")
            => InTimeRange(i)

\* C6 witness: a call has returned nil with its row at 2 ms; a second call
\* has added its row at -1 ms and not yet updated the metadata.
C6_Witness ==
    /\ DOMAIN procs = {0, 1}
    /\ procs[0].pc = "done" /\ procs[0].err = "nil"
    /\ procs[1].pc = "meta"
    /\ Len(profiles.slice) = 2
    /\ meta.MinTime = 2 /\ meta.MaxTime = 2
    /\ \E i \in 1..2 : TimeFromUnixNano(profiles.slice[i].TimeNanos) = -1

-----------------------------------------------------------------------------
(* The watchdog, Close and Flush *)

\* Head.Size, head.go:193-201: the sum of the tables' sizes
Size(H) ==
    H.strings.size + H.mappings.size + H.functions.size
        + H.locations.size + H.stacktraces.size + H.profiles.size

\* the flush-forced timer fires: its value waits in flushForcedTimer.C
TimerFire ==
    /\ timer = "armed"
    /\ timer' = "fired"
    /\ UNCHANGED <<dataVars, stopCh, flushCh, tick, loopPc, closePc, flushed, disk,
                   ncalls, last, procs>>

\* the 5 s ticker ticks: a value waits in tick.C
TickFire ==
    /\ tick = "empty"
    /\ tick' = "ready"
    /\ UNCHANGED <<dataVars, stopCh, flushCh, timer, loopPc, closePc, flushed, disk,
                   ncalls, last, procs>>

\* the deferred calls of loop, head.go:207-210: tick.Stop() and
\* h.flushForcedTimer.Stop()
LoopExit ==
    /\ loopPc' = "exited"
    /\ tick' = "stopped"
    /\ timer' = IF timer = "armed" THEN "stopped" ELSE timer

\* close(ch): a channel is closed once; closing a closed channel panics
closeCh(ch) == IF ch = "open" THEN "closed" ELSE "panic"

\* mutant: the tick's case closes flushCh and goes on selecting
LoopTickNoReturn ==
    /\ loopPc = "select" /\ tick = "ready"
    /\ tick' = "empty"
    /\ IF Size(HeadState) > MaxBlockBytes
       THEN flushCh' = closeCh(flushCh)
       ELSE UNCHANGED flushCh
    /\ UNCHANGED <<dataVars, stopCh, timer, loopPc, closePc, flushed, disk,
                   ncalls, last, procs>>

\* case <-h.flushForcedTimer.C, head.go:214-217
LoopTimer ==
    /\ loopPc = "select" /\ timer = "fired"
    /\ flushCh' = closeCh(flushCh)
    /\ loopPc' = "exited" /\ tick' = "stopped" /\ timer' = "drained"
    /\ UNCHANGED <<dataVars, stopCh, closePc, flushed, disk, ncalls, last, procs>>

\* mutant: the tick's case never finds the Head too big
LoopTickNoFlush ==
    /\ loopPc = "select" /\ tick = "ready"
    /\ tick' = "empty"
    /\ UNCHANGED <<dataVars, stopCh, flushCh, timer, loopPc, closePc, flushed, disk,
                   ncalls, last, procs>>

\* case <-tick.C, head.go:218-227
LoopTick ==
    /\ loopPc = "select" /\ tick = "ready"
    /\ IF Size(HeadState) > MaxBlockBytes
       THEN flushCh' = closeCh(flushCh) /\ LoopExit
       ELSE tick' = "empty" /\ UNCHANGED <<flushCh, loopPc, timer>>
    /\ UNCHANGED <<dataVars, stopCh, closePc, flushed, disk, ncalls, last, procs>>

\* case <-h.stopCh, head.go:228-229
LoopStop ==
    /\ loopPc = "select" /\ stopCh = "closed"
    /\ LoopExit
    /\ UNCHANGED <<dataVars, stopCh, flushCh, closePc, flushed, disk, ncalls, last, procs>>

\* the caller of the Head's API: its call in flight, if any, is procs["c"]
CallRuns(op) == "c" \in DOMAIN procs /\ procs["c"].op = op

\* the call in flight returns result
CallReturn(result) ==
    /\ procs' = EmptyMap
    /\ ncalls' = ncalls + 1
    /\ last' = result

\* t.Close() of table T: the table is closed, or the call fails without effect
closeTable(H, T, ok) == IF ok THEN [H EXCEPT ![T].closed = TRUE] ELSE H

\* merr.Add(t.Close()), head.go:682: the error of table T is collected
merrAdd(merr, T, ok) == IF ok THEN merr ELSE Append(merr, T)

\* merr.Err(), head.go:686: nil when no error was collected
merrErr(merr) == IF merr = <<>> THEN "nil" ELSE "error"

\* Head.Close begins, head.go:677-678: close(h.stopCh), which panics when
\* the channel is closed already
CloseBegin ==
    /\ ncalls < MaxLoopCalls
    /\ procs = EmptyMap
    /\ IF stopCh = "closed"
       THEN /\ CallReturn([op |-> "Close", err |-> "panic"])
            /\ UNCHANGED <<stopCh, closePc>>
       ELSE /\ stopCh' = "closed"
            /\ closePc' = "tables"
            /\ procs' = ("c" :> [op |-> "Close", idx |-> 1, merr |-> <<>>])
            /\ UNCHANGED <<ncalls, last>>
    /\ UNCHANGED <<dataVars, flushCh, timer, tick, loopPc, flushed, disk>>

\* one turn of the loop over h.tables, head.go:681-683: t.Close() of the
\* next table, whose error, if any, is collected; after the last table
\* comes h.wg.Wait()
CloseTable ==
    /\ closePc = "tables"
    /\ \E ok \in BOOLEAN :
          LET c == procs["c"]
              T == TableOrder[c.idx]
          IN /\ SetHead(closeTable(HeadState, T, ok))
             /\ procs' = ("c" :> [c EXCEPT !.idx = @ + 1, !.merr = merrAdd(@, T, ok)])
             /\ closePc' = IF c.idx = Len(TableOrder) THEN "wait" ELSE "tables"
    /\ UNCHANGED <<stopCh, flushCh, timer, tick, loopPc, flushed, disk, ncalls, last>>

\* mutant: Close returns without h.wg.Wait()
CloseReturnNoWait ==
    /\ closePc = "wait"
    /\ closePc' = "returned"
    /\ CallReturn([op |-> "Close", err |-> merrErr(procs["c"].merr)])
    /\ UNCHANGED <<dataVars, stopCh, flushCh, timer, tick, loopPc, flushed, disk>>

\* h.wg.Wait() returns once loop has exited, and Close returns the errors
\* collected, head.go:685-686
CloseReturn ==
    /\ closePc = "wait" /\ loopPc = "exited"
    /\ closePc' = "returned"
    /\ CallReturn([op |-> "Close", err |-> merrErr(procs["c"].merr)])
    /\ UNCHANGED <<dataVars, stopCh, flushCh, timer, tick, loopPc, flushed, disk>>

\* the places where Flush returns an error: os.RemoveAll (693), the index
\* write (701), t.Flush of a table (717), t.Close of a table (728), the
\* metadata write (746), os.MkdirAll (751), the rename (754)
NoFailure == [step |-> "none", table |-> "none"]
FlushFailures ==
    {[step |-> st, table |-> "none"] : st \in {"remove", "index", "meta", "mkdir", "rename"}}
    \cup {[step |-> st, table |-> TableOrder[i]] : st \in {"flush", "close"},
                                                   i \in 1..Len(TableOrder)}

\* make([]block.File, len(h.tables)+1), head.go:696: zero values
NewFiles ==
    [i \in 1..(Len(TableOrder) + 1) |-> [RelPath |-> "", Parquet |-> <<>>, TSDB |-> <<>>]]

\* the order of the strings the manifest is sorted by: the rank of a
\* relative path among the paths a manifest can hold
RelPathRank(path) ==
    CASE path = ""                    -> 0
      [] path = "functions.parquet"   -> 1
      [] path = "index.tsdb"          -> 2
      [] path = "locations.parquet"   -> 3
      [] path = "mappings.parquet"    -> 4
      [] path = "profiles.parquet"    -> 5
      [] path = "stacktraces.parquet" -> 6
      [] path = "strings.parquet"     -> 7

\* files[i].RelPath < files[j].RelPath, head.go:739
lessRelPath(a, b) == RelPathRank(a.RelPath) < RelPathRank(b.RelPath)

RECURSIVE insertFile(_, _, _)
insertFile(sorted, f, pos) ==
    IF pos > Len(sorted) THEN Append(sorted, f)
    ELSE IF lessRelPath(f, sorted[pos])
         THEN SubSeq(sorted, 1, pos - 1) \o <<f>> \o SubSeq(sorted, pos, Len(sorted))
         ELSE insertFile(sorted, f, pos + 1)

RECURSIVE sortFrom(_, _, _)
sortFrom(files, pos, acc) ==
    IF pos > Len(files) THEN acc ELSE sortFrom(files, pos + 1, insertFile(acc, files[pos], 1))

\* mutant: the manifest is left in the order it was filled in
sortFilesNone(files) == files

\* sort.Slice(files, ...), head.go:738-740
sortFiles(files) == sortFrom(files, 1, <<>>)

\* a file of directory dir gets a content
writeFile(dir, name, content) ==
    [dir EXCEPT !.files = (name :> content) @@ dir.files]

\* A Flush call in flight on the Head H and the disk D: its position, its
\* locals (idx of the loops over h.tables, files), what it returns, and the
\* Head and the disk as the call found them. A step of the call works on
\* F = [H, D, c], c being the call.
NewFlush(H, D) ==
    [op |-> "Flush", pc |-> "check", idx |-> 1, files |-> NewFiles, err |-> "running",
     failed |-> NoFailure, empty |-> FALSE, start |-> [H |-> H, D |-> D]]

\* return err, at the step that failed
FlushFail(F, step, T) ==
    [F EXCEPT !.c.pc = "done", !.c.err = "error",
              !.c.failed = CHOOSE f \in FlushFailures : f.step = step /\ f.table = T]

\* return nil
FlushReturn(F) == [F EXCEPT !.c.pc = "done", !.c.err = "nil"]

\* the loops over h.tables: the next table, or the step after the loop
FlushLoop(c, pc) ==
    IF c.idx = Len(TableOrder) THEN [c EXCEPT !.pc = pc, !.idx = 1]
    ELSE [c EXCEPT !.idx = @ + 1]

\* if len(h.profiles.slice) == 0, head.go:691
FlushCheck(F) ==
    IF Len(F.H.profiles.slice) = 0
    THEN [F EXCEPT !.c.pc = "remove", !.c.empty = TRUE]
    ELSE [F EXCEPT !.c.pc = "index"]

\* the directory dir with the files of the set left only
keepFiles(dir, left) ==
    [dir EXCEPT !.files = IF left = {} THEN EmptyMap ELSE [name \in left |-> dir.files[name]]]

\* os.RemoveAll(dir): what is left of the directory, and the error. A path
\* that does not exist is no error. A removal that fails has removed
\* everything it could and returns the first error it met: the directory
\* is still there, with any part of its files, all or none of them too.
RemoveAll(dir) ==
    IF ~dir.exists THEN {[dir |-> NoDir, err |-> "nil"]}
    ELSE {[dir |-> NoDir, err |-> "nil"]}
         \cup {[dir |-> keepFiles(dir, left), err |-> "error"] :
                  left \in SUBSET (DOMAIN dir.files)}

\* mutant: the directory of an empty Head is kept
FlushRemoveKeepDir(F, r) ==
    IF r.err = "nil" THEN FlushReturn(F) ELSE FlushFail(F, "remove", "none")

\* return os.RemoveAll(h.headPath), head.go:693, r being what RemoveAll does
FlushRemove(F, r) ==
    LET F1 == [F EXCEPT !.D.headPath = r.dir]
    IN IF r.err = "nil" THEN FlushReturn(F1) ELSE FlushFail(F1, "remove", "none")

\* head.go:698-712: the index is written to headPath, which must exist, and
\* becomes files[0]; h.meta.Stats.NumSeries is set
FlushIndex(F, ok) ==
    IF ~ok \/ ~F.D.headPath.exists THEN FlushFail(F, "index", "none")
    ELSE LET n == F.H.index.totalSeries IN
         [F EXCEPT !.D.headPath = writeFile(F.D.headPath, IndexFilename,
                                            [written |-> TRUE, NumRows |-> 0, doc |-> <<>>]),
                   !.H.meta.Stats.NumSeries = n,
                   !.c.files[1] = [RelPath |-> IndexFilename, Parquet |-> <<>>,
                                   TSDB |-> <<[NumSeries |-> n]>>],
                   !.c.pc = "flush", !.c.idx = 1]

\* one turn of the loop of head.go:714-724: t.Flush() of table h.tables[idx];
\* the rows of the table are in its file and their number in files[idx+1]
FlushTable(F, ok) ==
    LET T == TableOrder[F.c.idx]
        n == Len(F.H[T].slice)
    IN IF ~ok THEN FlushFail(F, "flush", T)
       ELSE [F EXCEPT !.D.headPath = writeFile(F.D.headPath, ParquetFile(T),
                                        [written |-> TRUE, NumRows |-> n, doc |-> <<>>]),
                      !.c = FlushLoop([F.c EXCEPT !.files[F.c.idx + 1].Parquet =
                                                      <<[NumRows |-> n]>>], "close")]

\* one turn of the loop of head.go:726-736: t.Close() of table h.tables[idx],
\* and the table's path in files[idx+1]
FlushCloseTable(F, ok) ==
    LET T == TableOrder[F.c.idx]
    IN IF ~ok THEN FlushFail(F, "close", T)
       ELSE [F EXCEPT !.H = closeTable(F.H, T, TRUE),
                      !.c = FlushLoop([F.c EXCEPT !.files[F.c.idx + 1].RelPath =
                                                      ParquetFile(T)], "manifest")]

\* head.go:738-743: the manifest is sorted and stored in h.meta with the
\* numbers of profiles and samples
FlushManifest(F) ==
    [F EXCEPT !.H.meta.Files = sortFiles(F.c.files),
              !.H.meta.Stats.NumProfiles = F.H.index.totalProfiles,
              !.H.meta.Stats.NumSamples = F.H.totalSamples,
              !.c.pc = "meta"]

\* head.go:745-747: h.meta.WriteToFile(h.logger, h.headPath)
FlushWriteMeta(F, ok) ==
    IF ~ok THEN FlushFail(F, "meta", "none")
    ELSE [F EXCEPT !.D.headPath = writeFile(F.D.headPath, MetaFilename,
                                     [written |-> TRUE, NumRows |-> 0, doc |-> <<F.H.meta>>]),
                   !.c.pc = "mkdir"]

\* head.go:750-752: os.MkdirAll of the parent of localPath
FlushMkdir(F, ok) ==
    IF ~ok THEN FlushFail(F, "mkdir", "none")
    ELSE [F EXCEPT !.D.localParent = TRUE, !.c.pc = "rename"]

\* fileutil.Rename(from, to): os.Rename moves the directory, then the
\* parent directory of the new path is opened, synced and closed. It
\* returns nil after all of it, the error of os.Rename with nothing moved
\* (always so when from does not exist), or the error of the parent
\* directory's sync with the directory moved already.
Rename(from) ==
    {[moved |-> FALSE, err |-> "error"]}
    \cup (IF from.exists
          THEN {[moved |-> TRUE, err |-> "nil"], [moved |-> TRUE, err |-> "error"]}
          ELSE {})

\* head.go:753-759: the rename of headPath to localPath, r being what
\* fileutil.Rename does, and return nil
FlushRename(F, r) ==
    LET F1 == IF r.moved
              THEN [F EXCEPT !.D.localPath = F.D.headPath, !.D.headPath = NoDir]
              ELSE F
    IN IF r.err = "nil" THEN FlushReturn(F1) ELSE FlushFail(F1, "rename", "none")

\* what the next step of a Flush call can do, head.go:690-760, the
\* environment choosing whether its I/O succeeds
FlushNext(F) ==
    CASE F.c.pc = "check"    -> {FlushCheck(F)}
      [] F.c.pc = "remove"   -> {FlushRemove(F, r) : r \in RemoveAll(F.D.headPath)}
      [] F.c.pc = "index"    -> {FlushIndex(F, ok) : ok \in BOOLEAN}
      [] F.c.pc = "flush"    -> {FlushTable(F, ok) : ok \in BOOLEAN}
      [] F.c.pc = "close"    -> {FlushCloseTable(F, ok) : ok \in BOOLEAN}
      [] F.c.pc = "manifest" -> {FlushManifest(F)}
      [] F.c.pc = "meta"     -> {FlushWriteMeta(F, ok) : ok \in BOOLEAN}
      [] F.c.pc = "mkdir"    -> {FlushMkdir(F, ok) : ok \in BOOLEAN}
      [] F.c.pc = "rename"   -> {FlushRename(F, r) : r \in Rename(F.D.headPath)}

\* a Flush call begins
FlushStart ==
    /\ ncalls < MaxLoopCalls
    /\ procs = EmptyMap
    /\ flushed' = TRUE
    /\ procs' = ("c" :> NewFlush(HeadState, disk))
    /\ UNCHANGED <<dataVars, loopVars, disk, ncalls, last>>

\* The Flush call in flight takes its next step. Whether writing to a table
\* that Close has closed already fails is among the failures the
\* environment chooses.
Flush ==
    /\ CallRuns("Flush")
    /\ \E F \in FlushNext([H |-> HeadState, D |-> disk, c |-> procs["c"]]) :
          /\ SetHead(F.H)
          /\ disk' = F.D
          /\ IF F.c.pc = "done"
             THEN CallReturn([op |-> "Flush", err |-> F.c.err, failed |-> F.c.failed,
                              empty |-> F.c.empty, start |-> F.c.start])
             ELSE procs' = ("c" :> F.c) /\ UNCHANGED <<ncalls, last>>
    /\ UNCHANGED <<loopVars, flushed>>

\* the profiles of the watchdog specification
LoopInputs ==
    {[p |-> pprof(1, "cpu", SamplesAB, T1), name |-> "app", failAt |-> "none", failType |-> 1],
     [p |-> pprof(3, "cpu", SamplesBA, T2), name |-> "app", failAt |-> "none", failType |-> 1]}

\* an Ingest call begins, at any time in the life of the Head; start is the
\* Head as the call found it
LoopIngestStart ==
    /\ ncalls < MaxLoopCalls
    /\ procs = EmptyMap
    /\ \E in \in LoopInputs :
          procs' = ("c" :> ([op |-> "Ingest", start |-> HeadState] @@ NewCall(in, ncalls)))
    /\ UNCHANGED <<dataVars, loopVars, flushed, disk, ncalls, last>>

\* the Ingest call in flight takes its next step
LoopIngest ==
    /\ CallRuns("Ingest")
    /\ \E s \in {IngestStep(HeadState, procs["c"])} :
          /\ SetHead(s.H)
          /\ IF s.c.pc = "done"
             THEN CallReturn([op |-> "Ingest", in |-> s.c.in, err |-> s.c.err,
                              rewrites |-> s.c.rewrites, start |-> s.c.start])
             ELSE procs' = ("c" :> s.c) /\ UNCHANGED <<ncalls, last>>
    /\ UNCHANGED <<loopVars, flushed, disk>>

NextLoop ==
    \/ LoopIngestStart \/ LoopIngest
    \/ CloseBegin \/ CloseTable \/ CloseReturn
    \/ FlushStart \/ Flush
    \/ TimerFire \/ TickFire \/ LoopTimer \/ LoopTick \/ LoopStop

\* The watchdog goroutine is scheduled, select takes every case that stays
\* ready (it chooses among the ready cases at random), the ticker ticks, and
\* the goroutine that called Close is scheduled. The Head's API has one
\* caller: its calls follow one another, each running step by step beside
\* the watchdog.
SpecLoop ==
    /\ Init /\ [][NextLoop]_vars
    /\ WF_vars(LoopTimer) /\ WF_vars(LoopTick) /\ WF_vars(LoopStop) /\ WF_vars(TickFire)
    /\ WF_vars(CloseTable) /\ WF_vars(CloseReturn)

-----------------------------------------------------------------------------
(* Lifecycle and watchdog properties *)

\* an API call returns in this step
CallReturns == ncalls' = ncalls + 1

\* Flush or Close has been called
NotOpen == flushed \/ stopCh = "closed"

\* C1 as stated. Once Flush or Close has been called on a Head, every later
\* call to Ingest returns a Closed error and stores nothing: the tables, the
\* series index and the metadata's time range are as the call found them.
C1_IngestAfterCloseRejected ==
    [][(CallReturns /\ last'.op = "Ingest" /\ NotOpen)
          => /\ last'.err = "closed"
             /\ \A T \in DictTables : HeadState'[T] = last'.start[T]
             /\ profiles' = last'.start.profiles
             /\ index' = last'.start.index
             /\ meta' = last'.start.meta]_vars

\* the state of the lifecycle, as far as the Head records it
Lifecycle ==
    IF stopCh = "closed" THEN "Closed" ELSE IF flushed THEN "Flushing" ELSE "Open"

\* C9 as stated. The lifecycle is one-way Open -> Flushing -> Closed: a Head
\* that is flushing or closed accepts no Ingest call, a closed Head is not
\* flushed, and no call takes the Head back to an earlier state.
C9_LifecycleOneWay ==
    [][/\ (CallReturns /\ Lifecycle # "Open" /\ last'.op = "Ingest") => last'.err # "nil"
       /\ (CallReturns /\ Lifecycle = "Closed" /\ last'.op = "Flush") => last'.err # "nil"
       /\ Lifecycle = "Closed" => Lifecycle' = "Closed"
       /\ Lifecycle = "Flushing" => Lifecycle' # "Open"]_vars

\* the watchdog has signalled flush, or the Head has been stopped
SignalledOrStopped == flushCh = "closed" \/ stopCh = "closed"

\* C10. Watchdog liveness: when the watchdog is running and the forced-flush
\* timer has fired, or the Head's size is above maxBlockBytes, then the
\* flush-signal channel is eventually closed, unless the Head is stopped.
C10_WatchdogSignals ==
    /\ [][flushCh' # flushCh
            => /\ timer = "fired" \/ Size(HeadState) > MaxBlockBytes
               /\ flushCh' = "closed" /\ loopPc' = "exited"]_vars
    /\ (loopPc = "select" /\ timer = "fired") ~> SignalledOrStopped
    /\ (loopPc = "select" /\ Size(HeadState) > MaxBlockBytes) ~> SignalledOrStopped

\* C10 witness: the Head grew above the threshold in the middle of an Ingest
\* call, a tick found it so while the timer had not fired, and the watchdog
\* closed flushCh and exited; the Head has not been stopped.
C10_Witness ==
    /\ Size(HeadState) > MaxBlockBytes
    /\ CallRuns("Ingest") /\ procs["c"].pc = "index"
    /\ flushCh = "closed" /\ loopPc = "exited"
    /\ timer = "stopped" /\ tick = "stopped"
    /\ stopCh = "open"

\* C11. The flush-signal channel is closed at most once over the lifetime of
\* a Head: no close(h.flushCh) finds the channel closed already (which would
\* panic), and a closed channel stays closed, whatever the order of the
\* timer, the ticks and the stop signal.
C11_FlushChClosedOnce ==
    /\ flushCh # "panic"
    /\ flushCh = "closed" => loopPc = "exited"

\* C11 witness: the watchdog closed flushCh on a tick that found the Head too
\* big while the timer had fired too and the stop signal had been given
C11_Witness ==
    /\ flushCh = "closed" /\ loopPc = "exited"
    /\ timer = "fired" /\ stopCh = "closed"
    /\ Size(HeadState) > MaxBlockBytes

\* C12 as stated. Once stopCh has been closed the watchdog never closes
\* flushCh, also when the timer or a size tick is ready at the same moment.
C12_NoSignalAfterStop ==
    [][stopCh = "closed" => flushCh' = flushCh]_vars

-----------------------------------------------------------------------------
(* Flush *)

\* a Flush call returns in this step; it found the Head empty / not empty
FlushReturns      == CallReturns /\ last'.op = "Flush"
FlushEmpty        == FlushReturns /\ last'.empty
FlushNonEmpty     == FlushReturns /\ ~last'.empty

\* file name of directory dir has been written
Written(dir, name) == dir.exists /\ name \in DOMAIN dir.files /\ dir.files[name].written

\* a Flush call that returns in this step wrote no file under headPath,
\* touched nothing at the final location and left the Head's data alone
FlushWroteNothing ==
    /\ \A name \in DOMAIN disk'.headPath.files :
          /\ name \in DOMAIN last'.start.D.headPath.files
          /\ disk'.headPath.files[name] = last'.start.D.headPath.files[name]
    /\ disk'.localPath = last'.start.D.localPath
    /\ disk'.localParent = last'.start.D.localParent
    /\ HeadState' = last'.start.H

\* C13 as stated. Flushing a Head with zero profile rows removes the scratch
\* directory, writes no index, table or metadata file, creates no block
\* directory at the final location, and returns success.
C13_FlushEmptyRemoves ==
    [][FlushEmpty =>
          /\ last'.err = "nil"
          /\ disk'.headPath = NoDir
          /\ ~disk'.localPath.exists /\ ~disk'.localParent
          /\ FlushWroteNothing]_vars

\* C13, amended. Flushing a Head with zero profile rows removes the scratch
\* directory with os.RemoveAll and returns what the removal returns: after a
\* removal that succeeded the directory is gone and Flush returns nil; after
\* one that failed Flush returns the error and the directory is still
\* there, with no file it did not have. Either way the call writes no
\* index, table or metadata file, creates no block directory at the final
\* location and leaves the Head's data as it found them.
C13_FlushEmpty ==
    [][FlushEmpty =>
          /\ Len(last'.start.H.profiles.slice) = 0
          /\ last'.err = "nil" => disk'.headPath = NoDir
          /\ last'.err # "nil" =>
                /\ last'.err = "error" /\ last'.failed.step = "remove"
                /\ disk'.headPath.exists /\ last'.start.D.headPath.exists
          /\ ~disk'.localPath.exists /\ ~disk'.localParent
          /\ FlushWroteNothing]_vars

\* C13 witness: a Flush of an empty Head has returned nil, and its
\* directory, which held the tables' files, is gone
C13_Witness ==
    /\ last.op = "Flush" /\ last.empty /\ last.err = "nil"
    /\ Len(profiles.slice) = 0
    /\ last.start.D.headPath.exists
    /\ disk.headPath = NoDir /\ ~disk.localPath.exists

\* the position of a step among the steps of Flush on a Head that is not
\* empty: the index, the six Flush calls, the six Close calls, the
\* metadata, MkdirAll, the rename
TableIdx(T) == CHOOSE i \in 1..Len(TableOrder) : TableOrder[i] = T
StepNo(f) ==
    CASE f.step = "index"  -> 1
      [] f.step = "flush"  -> 1 + TableIdx(f.table)
      [] f.step = "close"  -> 7 + TableIdx(f.table)
      [] f.step = "meta"   -> 14
      [] f.step = "mkdir"  -> 15
      [] f.step = "rename" -> 16

\* what a step leaves behind is as the returning call found it
FileSame(name) ==
    (name \in DOMAIN disk'.headPath.files) = (name \in DOMAIN last'.start.D.headPath.files)
    /\ (name \in DOMAIN last'.start.D.headPath.files
           => disk'.headPath.files[name] = last'.start.D.headPath.files[name])
StepNotDone(n) ==
    CASE n = 1           -> /\ FileSame(IndexFilename)
                            /\ meta'.Stats.NumSeries = last'.start.H.meta.Stats.NumSeries
      [] n \in 2..7      -> FileSame(ParquetFile(TableOrder[n - 1]))
      [] n \in 8..13     -> HeadState'[TableOrder[n - 7]].closed
                               = last'.start.H[TableOrder[n - 7]].closed
      [] n = 14          -> FileSame(MetaFilename)
      [] n = 15          -> disk'.localParent = last'.start.D.localParent
      [] n = 16          -> disk'.localPath = last'.start.D.localPath

\* the returning call has performed a step
StepDone(n) ==
    CASE n = 1           -> Written(disk'.headPath, IndexFilename)
      [] n \in 2..7      -> Written(disk'.headPath, ParquetFile(TableOrder[n - 1]))
      [] n \in 8..13     -> HeadState'[TableOrder[n - 7]].closed
      [] n = 14          -> Written(disk'.headPath, MetaFilename)
      [] n = 15          -> disk'.localParent

\* the block's directory is complete: index, tables and metadata written
BlockComplete(dir) ==
    /\ Written(dir, IndexFilename) /\ Written(dir, MetaFilename)
    /\ \A i \in 1..Len(TableOrder) : Written(dir, ParquetFile(TableOrder[i]))

\* C14 as stated. If a step of Flush on a non-empty Head fails, Flush
\* returns that first error, having performed the steps before it and none
\* of the later steps, and leaves the scratch directory in place; a block
\* directory exists at the final location only if the index was written,
\* every table flushed and closed and the metadata written.
C14_FlushFirstError ==
    [][FlushNonEmpty =>
          /\ last'.err \in {"nil", "error"}
          /\ last'.err = "error" =>
                /\ last'.failed \in FlushFailures /\ last'.failed.step # "remove"
                /\ \A n \in 1..(StepNo(last'.failed) - 1) : StepDone(n)
                /\ \A n \in StepNo(last'.failed)..16 : StepNotDone(n)
                /\ disk'.headPath.exists = last'.start.D.headPath.exists
                /\ disk'.localPath = last'.start.D.localPath
          /\ disk'.localPath.exists =>
                /\ BlockComplete(disk'.localPath)
                /\ \A i \in 1..Len(TableOrder) : HeadState'[TableOrder[i]].closed]_vars

\* a Flush that returns in this step failed at the rename after os.Rename
\* had moved the directory: the scratch directory is gone and the complete
\* block is at the final location, which was free
RenameMovedThenFailed ==
    /\ last'.failed.step = "rename"
    /\ disk'.headPath = NoDir /\ last'.start.D.headPath.exists
    /\ BlockComplete(disk'.localPath) /\ ~last'.start.D.localPath.exists
    /\ disk'.localParent
    /\ \A i \in 1..Len(TableOrder) : HeadState'[TableOrder[i]].closed

\* What holds of a failing Flush on a non-empty Head: it returns the first
\* error, and either it has performed the steps before the failing one,
\* none of the later ones, and the scratch directory is in place, or the
\* failing step is the rename and the directory has been moved all the
\* same. A block directory at the final location is complete.
FlushFirstErrorOrMoved ==
    [][FlushNonEmpty =>
          /\ last'.err \in {"nil", "error"}
          /\ last'.err = "error" =>
                /\ last'.failed \in FlushFailures /\ last'.failed.step # "remove"
                /\ \/ /\ \A n \in 1..(StepNo(last'.failed) - 1) : StepDone(n)
                      /\ \A n \in StepNo(last'.failed)..16 : StepNotDone(n)
                      /\ disk'.headPath.exists = last'.start.D.headPath.exists
                      /\ disk'.localPath = last'.start.D.localPath
                   \/ RenameMovedThenFailed
          /\ disk'.localPath.exists =>
                /\ BlockComplete(disk'.localPath)
                /\ \A i \in 1..Len(TableOrder) : HeadState'[TableOrder[i]].closed]_vars

\* a Flush of a non-empty Head has returned an error with the scratch
\* directory gone and the block at the final location
FlushFailedBlockMoved ==
    /\ last.op = "Flush" /\ ~last.empty /\ last.err = "error"
    /\ last.failed.step = "rename"
    /\ disk.headPath = NoDir /\ BlockComplete(disk.localPath)

\* the entries of a manifest with relative path name
Entries(files, name) == {i \in 1..Len(files) : files[i].RelPath = name}

\* the manifest has the index's entry and an entry per table, each with the
\* numbers of its own table in the Head H, and is strictly sorted by
\* relative path
ManifestOk(files, H) ==
    /\ Len(files) = 7
    /\ \E i \in 1..7 : files[i] = [RelPath |-> IndexFilename, Parquet |-> <<>>,
                                   TSDB |-> <<[NumSeries |-> H.index.totalSeries]>>]
    /\ \A t \in 1..Len(TableOrder) :
          \E i \in 1..7 :
             files[i] = [RelPath |-> ParquetFile(TableOrder[t]), TSDB |-> <<>>,
                         Parquet |-> <<[NumRows |-> Len(H[TableOrder[t]].slice)]>>]
    /\ \A i \in 1..6 : RelPathRank(files[i].RelPath) < RelPathRank(files[i + 1].RelPath)

\* C15. When a Flush of a non-empty Head returns nil the manifest in the
\* metadata, in memory and in meta.json, has exactly seven entries: one for
\* the index and one per table, each with its own relative path and the row
\* count of its own table, strictly sorted by relative path.
C15_ManifestSorted ==
    [][(FlushNonEmpty /\ last'.err = "nil") =>
          /\ ManifestOk(meta'.Files, HeadState')
          /\ Written(disk'.localPath, MetaFilename)
          /\ disk'.localPath.files[MetaFilename].doc = <<meta'>>]_vars

\* C15 witness: a Flush of a Head with a profile row has succeeded and the
\* manifest is in meta.json at the final location
C15_Witness ==
    /\ last.op = "Flush" /\ ~last.empty /\ last.err = "nil"
    /\ Len(profiles.slice) = 1
    /\ Written(disk.localPath, MetaFilename)
    /\ Len(disk.localPath.files[MetaFilename].doc[1].Files) = 7
    /\ meta.Files[1].RelPath = "functions.parquet"
    /\ meta.Files[7].Parquet = <<[NumRows |-> Len(strings.slice)]>>

-----------------------------------------------------------------------------
(* Head.MergeByLabels *)

\* rows one MergeByLabels call reads from its iterator
MaxRows == 3

\* the order of the strings the label names and values of the queries are
\* taken from
StrRank(str) ==
    CASE str = "1" -> 1
      [] str = "2" -> 2
      [] str = "x" -> 3
      [] str = "y" -> 4
      [] str = "z" -> 5

labelPair(n, v) == [Name |-> n, Value |-> v]

\* label sets, sorted by name, and their fingerprints: equal label sets have
\* equal fingerprints and conversely
QueryLabels ==
    <<  <<labelPair("x", "1"), labelPair("y", "1")>>,
        <<labelPair("x", "1"), labelPair("y", "2")>>,
        <<labelPair("x", "2"), labelPair("y", "1")>>  >>

\* the rows an iterator can yield: ProfileWithLabels of a series, with a
\* timestamp and a total, and a Profile of another type
LabelRows ==
    {[ok |-> TRUE, fp |-> f, Labels |-> QueryLabels[f], Timestamp |-> tv[1], Total |-> tv[2]] :
        f \in 1..Len(QueryLabels), tv \in {<<1, 5>>, <<2, 0>>, <<2, 5>>}}
    \cup {[ok |-> FALSE, fp |-> 0, Labels |-> <<>>, Timestamp |-> 0, Total |-> 0]}

\* the lists by: empty, one name, two names in either order, a name no
\* label set has, a name twice
ByLists == {<<>>, <<"x">>, <<"y">>, <<"x", "y">>, <<"z", "x">>, <<"y", "y">>}

\* Labels.WithLabels(by...): the labels whose name is in by, in the order of
\* the label set
WithLabels(ls, by) ==
    SelectSeq(ls, LAMBDA l : \E i \in 1..Len(by) : by[i] = l.Name)

RECURSIVE labelBytes(_, _)
labelBytes(ls, pos) ==
    IF pos > Len(ls) THEN <<>>
    ELSE <<ls[pos].Name, "sep", ls[pos].Value, "sep">> \o labelBytes(ls, pos + 1)

\* Labels.BytesWithLabels(buf, by...): the names and values of the labels in
\* by, each followed by a separator
BytesWithLabels(ls, by) == <<"sep">> \o labelBytes(WithLabels(ls, by), 1)

RECURSIVE comparePairsFrom(_, _, _)
comparePairsFrom(a, b, pos) ==
    IF pos > Len(a) \/ pos > Len(b)
    THEN (IF Len(a) < Len(b) THEN -1 ELSE IF Len(a) > Len(b) THEN 1 ELSE 0)
    ELSE IF a[pos].Name # b[pos].Name
         THEN (IF StrRank(a[pos].Name) < StrRank(b[pos].Name) THEN -1 ELSE 1)
    ELSE IF a[pos].Value # b[pos].Value
         THEN (IF StrRank(a[pos].Value) < StrRank(b[pos].Value) THEN -1 ELSE 1)
    ELSE comparePairsFrom(a, b, pos + 1)

\* phlaremodel.CompareLabelPairs: label by label, the name, then the value,
\* then the shorter set first
CompareLabelPairs(a, b) == comparePairsFrom(a, b, 1)

\* the orders sort.Slice can leave a slice in: the permutations of seq that
\* never have an element after one it is less than; less is the set of the
\* pairs <<a, b>> with a less than b
Orders(n) == {f \in [1..n -> 1..n] : \A i, j \in 1..n : i # j => f[i] # f[j]}
SortSlice(seq, less) ==
    {[i \in 1..Len(seq) |-> seq[f[i]]] : f \in
        {g \in Orders(Len(seq)) :
            \A i, j \in 1..Len(seq) : i < j => <<seq[g[j]], seq[g[i]]>> \notin less}}

\* a point of a series, head.go:559-562, 569-572
pointOf(p) == [Timestamp |-> p.Timestamp, Value |-> p.Total]

\* the locals of a MergeByLabels call, head.go:540-543
NewMergeByLabels(by) ==
    [op |-> "MergeByLabels", by |-> by, rows |-> <<>>,
     labelsByFingerprint |-> EmptyMap, seriesByLabels |-> EmptyMap]

\* mutant: the first row of a fingerprint is dropped when its series exists
MergeLabelsRowNoFallThrough(q, p) ==
    LET q1 == [q EXCEPT !.rows = Append(q.rows, p)] IN
    IF p.fp \in DOMAIN q.labelsByFingerprint
    THEN [q1 EXCEPT !.seriesByLabels[q.labelsByFingerprint[p.fp]].Points =
                        Append(@, pointOf(p))]
    ELSE LET labelsByString == BytesWithLabels(p.Labels, q.by)
             q2 == [q1 EXCEPT !.labelsByFingerprint =
                                  (p.fp :> labelsByString) @@ q.labelsByFingerprint]
         IN IF labelsByString \notin DOMAIN q.seriesByLabels
            THEN [q2 EXCEPT !.seriesByLabels =
                     (labelsByString :> [Labels |-> WithLabels(p.Labels, q.by),
                                         Points |-> <<pointOf(p)>>]) @@ q.seriesByLabels]
            ELSE q2

\* one iteration of the loop of head.go:545-574 with row p, a
\* ProfileWithLabels
MergeLabelsRow(q, p) ==
    LET q1 == [q EXCEPT !.rows = Append(q.rows, p)] IN
    IF p.fp \in DOMAIN q.labelsByFingerprint
    THEN [q1 EXCEPT !.seriesByLabels[q.labelsByFingerprint[p.fp]].Points =
                        Append(@, pointOf(p))]
    ELSE LET labelsByString == BytesWithLabels(p.Labels, q.by)
             q2 == [q1 EXCEPT !.labelsByFingerprint =
                                  (p.fp :> labelsByString) @@ q.labelsByFingerprint]
         IN IF labelsByString \notin DOMAIN q.seriesByLabels
            THEN [q2 EXCEPT !.seriesByLabels =
                     (labelsByString :> [Labels |-> WithLabels(p.Labels, q.by),
                                         Points |-> <<pointOf(p)>>]) @@ q.seriesByLabels]
            ELSE [q2 EXCEPT !.seriesByLabels[labelsByString].Points = Append(@, pointOf(p))]

\* lo.Values(seriesByLabels): the series in an order of the map's
RECURSIVE loValues(_)
loValues(m) ==
    IF DOMAIN m = {} THEN <<>>
    ELSE LET k == CHOOSE k \in DOMAIN m : TRUE
         IN <<m[k]>> \o loValues([x \in DOMAIN m \ {k} |-> m[x]])

lessLabels(a, b) == CompareLabelPairs(a.Labels, b.Labels) < 0
lessTimestamp(a, b) == a.Timestamp < b.Timestamp

RECURSIVE sortPointsFrom(_, _)
\* head.go:583-587: the points of each series sorted by timestamp
sortPointsFrom(r, pos) ==
    IF pos > Len(r) THEN {<<>>}
    ELSE {<<[r[pos] EXCEPT !.Points = ps]>> \o rest :
             ps \in SortSlice(r[pos].Points,
                              {ab \in Range(r[pos].Points) \X Range(r[pos].Points) :
                                  lessTimestamp(ab[1], ab[2])}),
             rest \in sortPointsFrom(r, pos + 1)}

\* head.go:578-588: the results the two sorts can give
MergeLabelsResults(q) ==
    UNION {sortPointsFrom(r, 1) : r \in SortSlice(loValues(q.seriesByLabels),
                  {ab \in Range(loValues(q.seriesByLabels)) \X Range(loValues(q.seriesByLabels)) :
                      lessLabels(ab[1], ab[2])})}

\* the call in flight, if any
Query == procs["q"]
QueryRuns(op) == "q" \in DOMAIN procs /\ procs["q"].op = op

\* what is left of the state when a query runs
QueryFrame == UNCHANGED <<dataVars, loopVars, flushed, disk, ncalls>>

\* MergeByLabels is called with a list by, head.go:536-543
MergeByLabelsStart ==
    /\ procs = EmptyMap
    /\ \E by \in ByLists : procs' = ("q" :> NewMergeByLabels(by))
    /\ last' = [op |-> "MergeByLabels", err |-> "running"]
    /\ QueryFrame

\* rows.Next() is true, head.go:545-574: a row that is no ProfileWithLabels
\* ends the call with an error
MergeByLabelsNext ==
    /\ QueryRuns("MergeByLabels")
    /\ Len(Query.rows) < MaxRows
    /\ \E p \in LabelRows :
          IF p.ok
          THEN procs' = ("q" :> MergeLabelsRow(Query, p)) /\ UNCHANGED last
          ELSE /\ procs' = EmptyMap
               /\ last' = [op |-> "MergeByLabels", err |-> "error", by |-> Query.by,
                           rows |-> Query.rows, result |-> <<>>]
    /\ QueryFrame

\* rows.Next() is false, head.go:575-588: the iterator's error, or the
\* sorted series
MergeByLabelsReturn ==
    /\ QueryRuns("MergeByLabels")
    /\ procs' = EmptyMap
    /\ \/ last' = [op |-> "MergeByLabels", err |-> "error", by |-> Query.by,
                   rows |-> Query.rows, result |-> <<>>]
       \/ \E res \in MergeLabelsResults(Query) :
             last' = [op |-> "MergeByLabels", err |-> "nil", by |-> Query.by,
                      rows |-> Query.rows, result |-> res]
    /\ QueryFrame

NextLabels == MergeByLabelsStart \/ MergeByLabelsNext \/ MergeByLabelsReturn

\* MergeByLabels calls, one after the other, over any rows
SpecLabels == Init /\ [][NextLabels]_vars

\* the rows of the last call whose labels project to ls
RowsOf(ls) ==
    {i \in 1..Len(last.rows) : WithLabels(last.rows[i].Labels, last.by) = ls}

\* C16. MergeByLabels: every input row contributes exactly one point, its
\* timestamp and total, to exactly one output series, the one whose labels
\* are the projection of the row's labels onto by; the output series have
\* pairwise distinct label sets and are sorted by canonical label order, and
\* the points of each series are in non-decreasing timestamp order.
C16_MergeByLabels ==
    (last.op = "MergeByLabels" /\ last.err = "nil") =>
        LET res == last.result IN
        /\ \A i \in 1..Len(last.rows) :
              Cardinality({k \in 1..Len(res) :
                  res[k].Labels = WithLabels(last.rows[i].Labels, last.by)}) = 1
        /\ \A k \in 1..Len(res) :
              /\ Len(res[k].Points) = Cardinality(RowsOf(res[k].Labels))
              /\ \A i \in RowsOf(res[k].Labels) :
                    Cardinality({n \in 1..Len(res[k].Points) :
                                    res[k].Points[n] = pointOf(last.rows[i])})
                    = Cardinality({j \in RowsOf(res[k].Labels) :
                                      pointOf(last.rows[j]) = pointOf(last.rows[i])})
              /\ \A n \in 1..(Len(res[k].Points) - 1) :
                    res[k].Points[n].Timestamp <= res[k].Points[n + 1].Timestamp
        /\ \A k \in 1..(Len(res) - 1) :
              CompareLabelPairs(res[k].Labels, res[k + 1].Labels) < 0

\* C16 witness: by = <<"x">>; rows of two series that project to x=1 and a
\* row of the series x=2, the later timestamp first; the result has the
\* series x=1 with two points in timestamp order, then the series x=2
C16_Witness ==
    /\ last.op = "MergeByLabels" /\ last.err = "nil" /\ last.by = <<"x">>
    /\ Len(last.rows) = 3
    /\ last.rows[1].fp = 1 /\ last.rows[2].fp = 3 /\ last.rows[3].fp = 2
    /\ last.rows[1].Timestamp = 2 /\ last.rows[3].Timestamp = 1
    /\ Len(last.result) = 2
    /\ last.result[1] = [Labels |-> <<labelPair("x", "1")>>,
                         Points |-> <<[Timestamp |-> 1, Value |-> 5],
                                      [Timestamp |-> 2, Value |-> 0]>>]

-----------------------------------------------------------------------------
(* Head.MergeByStacktraces *)

\* Ingest calls started in the specification of MergeByStacktraces
MaxStackCalls == 2

\* the tables MergeByStacktraces locks for reading, in the order of
\* head.go:481-484
ReadLockOrder == <<"stacktraces", "locations", "functions", "strings">>

\* lock.RLock() / lock.RUnlock() of table T
RLock(H, T)   == [H EXCEPT ![T].lock = @ + 1]
RUnlock(H, T) == [H EXCEPT ![T].lock = @ - 1]

\* mutant: the deferred function unlocks nothing
runlockNone(H, q) == H

\* the deferred function of head.go:485-490, one statement at a time: the
\* next RUnlock, in the order of the RLocks
runlockNext(H, q) == RUnlock(H, ReadLockOrder[q.unlocked + 1])

\* the locals of a MergeByStacktraces call, head.go:475-479; locked counts
\* the RLock calls made, unlocked the RUnlock calls made, and ret holds the
\* results once the return statement has been executed
NewMergeByStacktraces ==
    [op |-> "MergeByStacktraces", locked |-> 0, unlocked |-> 0, ret |-> <<>>, rows |-> <<>>,
     stacktraceSamples |-> EmptyMap, names |-> <<>>, functions |-> EmptyMap]

RECURSIVE lineFunctions(_, _)
lineFunctions(lines, pos) ==
    IF pos > Len(lines) THEN <<>>
    ELSE <<lines[pos].FunctionId>> \o lineFunctions(lines, pos + 1)

RECURSIVE frameFunctions(_, _, _)
\* the function IDs the loops of head.go:508-509 visit, in their order:
\* each line of each location of locs
frameFunctions(H, locs, pos) ==
    IF pos > Len(locs) THEN <<>>
    ELSE lineFunctions(H.locations.slice[locs[pos] + 1].Line, 1)
            \o frameFunctions(H, locs, pos + 1)

RECURSIVE mergeFrames(_, _, _, _, _)
\* head.go:510-518 for the frames fns[pos..]: [names, functions, fnIds]
mergeFrames(H, q, fns, pos, fnIds) ==
    IF pos > Len(fns)
    THEN [names |-> q.names, functions |-> q.functions, fnIds |-> fnIds]
    ELSE LET fnNameID == H.functions.slice[fns[pos] + 1].Name IN
         IF fnNameID \in DOMAIN q.functions
         THEN mergeFrames(H, q, fns, pos + 1, Append(fnIds, q.functions[fnNameID]))
         ELSE mergeFrames(H,
                          [q EXCEPT !.functions = (fnNameID :> Len(q.names)) @@ q.functions,
                                    !.names = Append(q.names, H.strings.slice[fnNameID + 1])],
                          fns, pos + 1, Append(fnIds, Len(q.names)))

\* mutant: a sample of value 0 is merged like the others
mergeSampleKeepZero(H, q, smpl) ==
    IF smpl.StacktraceID \in DOMAIN q.stacktraceSamples
    THEN [q EXCEPT !.stacktraceSamples[smpl.StacktraceID].Value = @ + smpl.Value]
    ELSE LET locs == H.stacktraces.slice[smpl.StacktraceID + 1].LocationIDs
             r    == mergeFrames(H, q, frameFunctions(H, locs, 1), 1, <<>>)
         IN [q EXCEPT !.names = r.names, !.functions = r.functions,
                      !.stacktraceSamples =
                          (smpl.StacktraceID :> [FunctionIds |-> r.fnIds, Value |-> smpl.Value])
                              @@ q.stacktraceSamples]

\* the body of the loop over p.Samples, head.go:497-525
mergeSample(H, q, smpl) ==
    IF smpl.Value = 0 THEN q
    ELSE IF smpl.StacktraceID \in DOMAIN q.stacktraceSamples
    THEN [q EXCEPT !.stacktraceSamples[smpl.StacktraceID].Value = @ + smpl.Value]
    ELSE LET locs == H.stacktraces.slice[smpl.StacktraceID + 1].LocationIDs
             r    == mergeFrames(H, q, frameFunctions(H, locs, 1), 1, <<>>)
         IN [q EXCEPT !.names = r.names, !.functions = r.functions,
                      !.stacktraceSamples =
                          (smpl.StacktraceID :> [FunctionIds |-> r.fnIds, Value |-> smpl.Value])
                              @@ q.stacktraceSamples]

RECURSIVE mergeSamples(_, _, _, _)
mergeSamples(H, q, samples, pos) ==
    IF pos > Len(samples) THEN q
    ELSE mergeSamples(H, mergeSample(H, q, samples[pos]), samples, pos + 1)

\* one iteration of the loop of head.go:492-526 with row p
MergeStacksRow(H, q, p) ==
    mergeSamples(H, [q EXCEPT !.rows = Append(q.rows, p)], p.Samples, 1)

\* head.go:530-533: lo.Values(stacktraceSamples) in any order, and names
MergeStacksResults(q) ==
    {[Stacktraces |-> st, FunctionNames |-> q.names] :
        st \in SortSlice(loValues(q.stacktraceSamples), {})}

\* the profiles of this specification: two stacktraces with values; and, in
\* another numbering, a third stacktrace with value 0 only, and a value 0
\* next to a value of the same stacktrace
StackInputs ==
    {[p |-> pprof(1, "cpu", SamplesAB, T1), name |-> "app", failAt |-> "none", failType |-> 1],
     [p |-> pprof(3, "cpu", <<smp(<<"b">>, 0, <<>>), smp(<<"a">>, 0, <<>>),
                              smp(<<"a">>, 3, <<>>)>>, T2),
      name |-> "app", failAt |-> "none", failType |-> 1]}

\* the iterator's rows: the profile rows of the Head
StackRows == {[ok |-> TRUE, Samples |-> profiles.slice[i].Samples] : i \in 1..Len(profiles.slice)}
             \cup {[ok |-> FALSE, Samples |-> <<>>]}

removeProc(id) == [k \in DOMAIN procs \ {id} |-> procs[k]]

\* a caller calls Ingest while queries run
StacksIngestStart ==
    /\ ncalls < MaxStackCalls
    /\ "c1" \notin DOMAIN procs
    /\ \E in \in StackInputs : procs' = procs @@ ("c1" :> NewCall(in, ncalls))
    /\ ncalls' = ncalls + 1
    /\ UNCHANGED <<dataVars, loopVars, flushed, disk, last>>

\* the call's next step; a table's ingest takes the table's lock for
\* writing, so it waits while a reader holds it
StacksIngestStep ==
    /\ "c1" \in DOMAIN procs
    /\ LET c == procs["c1"]
           s == IngestStep(HeadState, c)
       IN /\ c.pc \in Tables => HeadState[c.pc].lock = 0
          /\ SetHead(s.H)
          /\ procs' = IF s.c.pc = "done" THEN removeProc("c1")
                      ELSE [procs EXCEPT !["c1"] = s.c]
    /\ UNCHANGED <<loopVars, flushed, disk, ncalls, last>>

\* MergeByStacktraces is called, head.go:471-479
MergeStacksStart ==
    /\ "q" \notin DOMAIN procs
    /\ procs' = procs @@ ("q" :> NewMergeByStacktraces)
    /\ last' = [op |-> "MergeByStacktraces", err |-> "running"]
    /\ UNCHANGED <<dataVars, loopVars, flushed, disk, ncalls>>

\* the next RLock of head.go:481-484
MergeStacksLock ==
    /\ QueryRuns("MergeByStacktraces")
    /\ Query.locked < Len(ReadLockOrder)
    /\ SetHead(RLock(HeadState, ReadLockOrder[Query.locked + 1]))
    /\ procs' = [procs EXCEPT !["q"].locked = @ + 1]
    /\ UNCHANGED <<loopVars, flushed, disk, ncalls, last>>

\* a return statement of head.go:495, 528, 530: the results are set; the
\* deferred function has yet to run
MergeStacksReturn(err, res) ==
    /\ procs' = [procs EXCEPT !["q"].ret = <<[err |-> err, result |-> res]>>]
    /\ UNCHANGED <<dataVars, last>>

NoResult == [Stacktraces |-> <<>>, FunctionNames |-> <<>>]

\* rows.Next() is true, head.go:492-526: a row that is no ProfileWithLabels
\* ends the call with an error
MergeStacksNext ==
    /\ QueryRuns("MergeByStacktraces")
    /\ Query.locked = Len(ReadLockOrder) /\ Query.ret = <<>>
    /\ Len(Query.rows) < MaxRows
    /\ \E p \in StackRows :
          IF p.ok
          THEN /\ procs' = [procs EXCEPT !["q"] = MergeStacksRow(HeadState, Query, p)]
               /\ UNCHANGED <<dataVars, last>>
          ELSE MergeStacksReturn("error", NoResult)
    /\ UNCHANGED <<loopVars, flushed, disk, ncalls>>

\* rows.Next() is false, head.go:527-533: the iterator's error, or the result
MergeStacksEnd ==
    /\ QueryRuns("MergeByStacktraces")
    /\ Query.locked = Len(ReadLockOrder) /\ Query.ret = <<>>
    /\ \/ MergeStacksReturn("error", NoResult)
       \/ \E res \in MergeStacksResults(Query) : MergeStacksReturn("nil", res)
    /\ UNCHANGED <<loopVars, flushed, disk, ncalls>>

\* the deferred function of head.go:485-490 runs after the return
\* statement: one RUnlock per step; after the last one the caller has the
\* results
MergeStacksUnlock ==
    /\ QueryRuns("MergeByStacktraces")
    /\ Query.ret # <<>>
    /\ SetHead(runlockNext(HeadState, Query))
    /\ IF Query.unlocked + 1 < Len(ReadLockOrder)
       THEN procs' = [procs EXCEPT !["q"].unlocked = @ + 1] /\ UNCHANGED last
       ELSE /\ procs' = removeProc("q")
            /\ last' = [op |-> "MergeByStacktraces", err |-> Query.ret[1].err,
                        rows |-> Query.rows, result |-> Query.ret[1].result]
    /\ UNCHANGED <<loopVars, flushed, disk, ncalls>>

NextStacks ==
    \/ StacksIngestStart \/ StacksIngestStep
    \/ MergeStacksStart \/ MergeStacksLock \/ MergeStacksNext \/ MergeStacksEnd
    \/ MergeStacksUnlock

\* MergeByStacktraces calls, one after the other, while Ingest calls run
SpecStacks == Init /\ [][NextStacks]_vars

\* the samples of the rows the last call read, one after the other
RECURSIVE rowSamplesFrom(_, _)
rowSamplesFrom(rows, pos) ==
    IF pos > Len(rows) THEN <<>> ELSE rows[pos].Samples \o rowSamplesFrom(rows, pos + 1)

RECURSIVE sumValues(_, _, _)
\* the sum of the values of the samples with stacktrace ID id
sumValues(samples, id, pos) ==
    IF pos > Len(samples) THEN 0
    ELSE (IF samples[pos].StacktraceID = id THEN samples[pos].Value ELSE 0)
            + sumValues(samples, id, pos + 1)

\* the names of the functions of the frames of stacktrace id, in frame
\* order: each line of each location
FrameNames(id) ==
    LET fns == frameFunctions(HeadState, stacktraces.slice[id + 1].LocationIDs, 1)
    IN [k \in 1..Len(fns) |-> strings.slice[functions.slice[fns[k] + 1].Name + 1]]

\* C17. MergeByStacktraces: the result has exactly one entry per stacktrace
\* ID with a non-zero sample in the rows, its value the sum of the sample
\* values of that ID; samples of value 0 make no entry; functionNames has no
\* string twice; every FunctionIds element is a position in functionNames
\* and names the function of its frame, in frame order.
C17_MergeByStacktraces ==
    (last.op = "MergeByStacktraces" /\ last.err = "nil") =>
        LET samples == rowSamplesFrom(last.rows, 1)
            ids     == {samples[i].StacktraceID : i \in {j \in 1..Len(samples) : samples[j].Value # 0}}
            st      == last.result.Stacktraces
            names   == last.result.FunctionNames
        IN /\ Len(st) = Cardinality(ids)
           /\ \E f \in [ids -> 1..Len(st)] :
                 /\ \A a, b \in ids : a # b => f[a] # f[b]
                 /\ \A id \in ids :
                       /\ st[f[id]].Value = sumValues(samples, id, 1)
                       /\ Len(st[f[id]].FunctionIds) = Len(FrameNames(id))
                       /\ \A k \in 1..Len(FrameNames(id)) :
                             /\ st[f[id]].FunctionIds[k] \in 0..(Len(names) - 1)
                             /\ names[st[f[id]].FunctionIds[k] + 1] = FrameNames(id)[k]
           /\ \A i, j \in 1..Len(names) : i # j => names[i] # names[j]

\* C17 witness: two rows were merged; stacktrace <<a>> has the sum 5 + 3,
\* stacktrace <<b, a>> the function IDs <<1, 0>> into the names <<a, b>>, and
\* stacktrace <<b>>, which has a sample of value 0 only, has no entry
C17_Witness ==
    /\ last.op = "MergeByStacktraces" /\ last.err = "nil"
    /\ Len(last.rows) = 2
    /\ last.result.FunctionNames = <<"a", "b">>
    /\ Len(last.result.Stacktraces) = 2
    /\ \E i \in 1..2 : last.result.Stacktraces[i] = [FunctionIds |-> <<0>>, Value |-> 8]
    /\ \E i \in 1..2 : last.result.Stacktraces[i] = [FunctionIds |-> <<1, 0>>, Value |-> 7]
    /\ Len(stacktraces.slice) = 3

\* a MergeByStacktraces call holds its four locks and reads rows
Traversing ==
    /\ QueryRuns("MergeByStacktraces")
    /\ Query.locked = Len(ReadLockOrder) /\ Query.ret = <<>>

\* C18. While a MergeByStacktraces traversal is in progress no Ingest
\* inserts into the stacktraces, locations, functions or strings tables, and
\* the four reader locks are released on every return path, the error paths
\* included: without a call in flight no table is locked for reading.
C18_ReaderLocks ==
    /\ [][Traversing =>
             /\ \A i \in 1..Len(ReadLockOrder) : HeadState[ReadLockOrder[i]].lock > 0
             /\ stacktraces'.slice = stacktraces.slice /\ locations'.slice = locations.slice
             /\ functions'.slice = functions.slice /\ strings'.slice = strings.slice]_vars
    /\ []("q" \notin DOMAIN procs
             => \A i \in 1..Len(ReadLockOrder) : HeadState[ReadLockOrder[i]].lock = 0)

\* C18 witness: a traversal has read a row, and an Ingest call in flight is
\* at its locations table, which the traversal holds locked
C18_Witness ==
    /\ Traversing /\ Len(Query.rows) = 1
    /\ "c1" \in DOMAIN procs /\ procs["c1"].pc = "locations"
    /\ locations.lock = 1

-----------------------------------------------------------------------------
(* Errors of Ingest *)

\* no dictionary stores two elements of one key; the IDs are 0..|T|-1, each
\* element's ID its position
StoredDedup ==
    \A T \in DictTables : \A i, j \in 1..Len(TableOf(T).slice) :
        StoredKey(T, i) = StoredKey(T, j) => i = j
StoredDense ==
    \A T \in DictTables :
        /\ Range(TableOf(T).lookup) = 0..(Len(TableOf(T).slice) - 1)
        /\ \A i \in 1..Len(TableOf(T).slice) :
              /\ StoredKey(T, i) \in DOMAIN TableOf(T).lookup
              /\ TableOf(T).lookup[StoredKey(T, i)] = i - 1

\* the Head after the call of this step, had no table returned an error
WithoutError ==
    IngestRun(HeadState, NewCall([last'.in EXCEPT !.failAt = "none"], ncalls)).H

\* C19 as stated. Within one Ingest call the tables get their batches in
\* the order strings, mappings, functions, locations, stacktraces, profiles,
\* and Ingest returns the first error met in that order: the tables before
\* the failing one hold what the call inserted, the failing table and the
\* later ones are untouched, no profile row or series-index entry is added
\* and the time range is unchanged; the retained inserts satisfy dedup and
\* density.
C19_NoRowAfterError ==
    /\ [][(CallReturns /\ last'.op = "Ingest" /\ last'.in.failAt # "none") =>
             LET k == TableIdx(last'.in.failAt) IN
             /\ last'.err = "error"
             /\ \A i \in 1..Len(TableOrder) :
                   HeadState'[TableOrder[i]] =
                       IF i < k THEN WithoutError[TableOrder[i]]
                                ELSE HeadState[TableOrder[i]]
             /\ UNCHANGED <<profiles, index, meta>>]_vars
    /\ []((last.op = "Ingest" /\ last.err = "error") => StoredDedup /\ StoredDense)

\* the profile p with its first n value types only
firstTypes(p, n) ==
    [p EXCEPT !.SampleType = SubSeq(@, 1, n),
              !.Sample     = [i \in 1..Len(@) |-> [@[i] EXCEPT !.Value = SubSeq(@, 1, n)]]]

\* the value types of the call of this step that came before the error: all
\* those before the one the profiles table failed at, none when a
\* dictionary failed
TypesBeforeError ==
    IF last'.in.failAt = "profiles" THEN last'.in.failType - 1 ELSE 0

\* the Head after the call of this step, had its profile had the value
\* types before the error only and had no table returned an error
WithEarlierTypes ==
    IngestRun(HeadState,
              NewCall([last'.in EXCEPT !.failAt = "none",
                                       !.p = firstTypes(@, TypesBeforeError)], ncalls)).H

\* C19, amended. Within one Ingest call the tables get their batches in the
\* order strings, mappings, functions, locations, stacktraces, profiles, and
\* Ingest returns the first error met in that order: the dictionaries
\* before the failing table hold what the call inserted, the failing
\* dictionary and the later ones are untouched, and the time range is
\* unchanged. After an error of a dictionary, or of the profiles table at
\* the first value type, no profile row or series-index entry is added;
\* after an error of the profiles table at a later value type the rows and
\* the index entries of the value types before it are stored, as if the
\* profile had had those value types only, and nothing of the failing and
\* the later ones. The retained inserts satisfy dedup and density.
C19_IngestFirstError ==
    /\ [][(CallReturns /\ last'.op = "Ingest" /\ last'.in.failAt # "none") =>
             LET k == TableIdx(last'.in.failAt) IN
             /\ last'.err = "error"
             /\ \A i \in 1..Len(TableOrder) :
                   TableOrder[i] \in DictTables =>
                      HeadState'[TableOrder[i]] =
                          IF i < k THEN WithoutError[TableOrder[i]]
                                   ELSE HeadState[TableOrder[i]]
             /\ IF TypesBeforeError = 0
                THEN UNCHANGED <<profiles, index>>
                ELSE /\ profiles' = WithEarlierTypes.profiles
                     /\ index' = WithEarlierTypes.index
                     /\ Len(profiles'.slice) <= Len(profiles.slice) + TypesBeforeError
                     /\ Len(WithoutError.profiles.slice) >= Len(profiles'.slice)
             /\ meta' = meta]_vars
    /\ []((last.op = "Ingest" /\ last.err = "error") => StoredDedup /\ StoredDense)

\* C19 witness: the first call on a Head, with a profile of two value types,
\* met an error of the profiles table at the second value type: its
\* dictionaries are filled, the row and the index entry of the first value
\* type are stored, and the time range is as NewHead set it
C19_Witness ==
    /\ ncalls = 1
    /\ last.op = "Ingest" /\ last.err = "error"
    /\ last.in.failAt = "profiles" /\ last.in.failType = 2
    /\ Len(last.in.p.SampleType) = 2
    /\ Len(stacktraces.slice) = 2 /\ DOMAIN last.rewrites.stacktraces = {0, 1}
    /\ Len(profiles.slice) = 1 /\ profiles.slice[1].Samples[2].Value = 7
    /\ index # EmptyIndex /\ meta = NewMeta

-----------------------------------------------------------------------------
(* Sample fan-out *)

\* Ingest calls in the specification of the fan-out
MaxFanCalls == 2

\* samples of the fan-out: one stacktrace in two samples, values 0, one
\* sample only
FanSamples ==
    {<<smp2(<<"a">>, 5, 1), smp2(<<"b", "a">>, 0, 2), smp2(<<"a">>, 7, 0)>>,
     <<smp2(<<"b">>, 4, 6), smp2(<<"b">>, 4, 6)>>,
     <<smp2(<<"a", "b">>, 0, 9)>>}

FanInputs ==
    {[p |-> pprof2(n, samples, t), name |-> "app", failAt |-> "none", failType |-> 1] :
        n \in {1, 3}, samples \in FanSamples, t \in {T0, T2}}

FanIngest ==
    /\ ncalls < MaxFanCalls
    /\ \E in \in FanInputs : Ingest(in)
    /\ UNCHANGED <<loopVars, flushed, disk, procs>>

NextFan == FanIngest

\* Ingest calls of profiles of two value types, one after the other
SpecFan == Init /\ [][NextFan]_vars

\* the Head ID, after the step, of the stacktrace built from the location
\* IDs of sample smpl of the call of this step
SampleStacktraceID(smpl) ==
    stacktraces'.lookup[stacktracesKey(stacktracesRewrite(
        last'.rewrites, [LocationIDs |-> smpl.LocationId]))]

\* C20. Sample fan-out: for a non-cumulative profile with S >= 1 samples and
\* V value types, Ingest stores exactly V profile rows, one per value type,
\* each with exactly S samples in input order; sample i of row t has the
\* value in[i].Value[t], zero values included, and the Head ID of the
\* stacktrace built from sample i's location IDs, also when samples share a
\* stacktrace.
C20_FanOut ==
    [][(CallReturns /\ last'.op = "Ingest" /\ last'.err = "nil"
           /\ Len(last'.in.p.Sample) >= 1) =>
          LET in == last'.in.p.Sample
              V  == Len(last'.in.p.SampleType)
              n  == Len(profiles.slice)
          IN /\ Len(profiles'.slice) = n + V
             /\ SubSeq(profiles'.slice, 1, n) = profiles.slice
             /\ \A t \in 1..V :
                   LET row == profiles'.slice[n + t] IN
                   /\ row.SeriesFingerprint.type = stringAt(last'.in.p, last'.in.p.SampleType[t].Type)
                   /\ Len(row.Samples) = Len(in)
                   /\ \A i \in 1..Len(in) :
                         /\ row.Samples[i].Value = in[i].Value[t]
                         /\ row.Samples[i].StacktraceID = SampleStacktraceID(in[i])]_vars

\* C20 witness: the second call stored two rows of three samples each; the
\* first and third sample have one stacktrace, which the first call had
\* stored as ID 1, and the values 0 are stored
C20_Witness ==
    /\ ncalls = 2 /\ last.op = "Ingest" /\ last.err = "nil"
    /\ Len(profiles.slice) = 4
    /\ profiles.slice[3].Samples =
          <<[StacktraceID |-> 1, Value |-> 5, Labels |-> <<>>],
            [StacktraceID |-> 2, Value |-> 0, Labels |-> <<>>],
            [StacktraceID |-> 1, Value |-> 7, Labels |-> <<>>]>>
    /\ profiles.slice[4].Samples =
          <<[StacktraceID |-> 1, Value |-> 1, Labels |-> <<>>],
            [StacktraceID |-> 2, Value |-> 2, Labels |-> <<>>],
            [StacktraceID |-> 1, Value |-> 0, Labels |-> <<>>]>>

-----------------------------------------------------------------------------
(* References of a profile: unknown IDs, labels *)

\* Ingest calls in the specification of the references
MaxRefCalls == 2

\* one sample of stack "a" with the label pair key = value
labelled(n, key, value, time) ==
    pprof(n, "cpu", <<smp(<<"a">>, 5, <<<<key, value>>>>)>>, time)

\* profiles of one labelled sample, in the numberings 1 and 2, which have
\* the per-profile IDs of "a" and "b" exchanged
LabelProfiles ==
    {labelled(n, kv[1], kv[2], t) :
        n \in {1, 2}, kv \in {<<"a", "b">>, <<"b", "a">>}, t \in {T1, T2}}

\* profiles with a reference no element of the profile has: the filename of
\* the mapping, the name of a function, the mapping and the function of a
\* location, a location of a sample, the value of a label
DanglingProfiles ==
    LET p == labelled(1, "a", "b", T0) IN
    {[p EXCEPT !.Mapping[1].Filename = 9],
     [p EXCEPT !.Function[2].Name = 9],
     [p EXCEPT !.Location[1].MappingId = 5],
     [p EXCEPT !.Location[2].Line[1].FunctionId = 5],
     [p EXCEPT !.Sample[1].LocationId = <<0, 7>>],
     [p EXCEPT !.Sample[1].Label[1].Str = 8]}

RefInputs ==
    {[p |-> p, name |-> "app", failAt |-> "none", failType |-> 1] : p \in LabelProfiles \cup DanglingProfiles}

RefIngest ==
    /\ ncalls < MaxRefCalls
    /\ \E in \in RefInputs : Ingest(in)
    /\ UNCHANGED <<loopVars, flushed, disk, procs>>

NextRef == RefIngest

\* Ingest calls of profiles with labels and with unknown references
SpecRef == Init /\ [][NextRef]_vars

\* the per-profile IDs of the elements of a section of n elements
Ids(n) == 0..(n - 1)

\* profile p refers to an element it does not have; a label pair counts when
\* the cache, given as its keys, does not answer for the sample's labels
Dangling(p, cached) ==
    \/ \E i \in 1..Len(p.Mapping) :
          {p.Mapping[i].Filename, p.Mapping[i].BuildId} \ Ids(Len(p.StringTable)) # {}
    \/ \E i \in 1..Len(p.Function) :
          {p.Function[i].Name, p.Function[i].SystemName, p.Function[i].Filename}
              \ Ids(Len(p.StringTable)) # {}
    \/ \E i \in 1..Len(p.Location) :
          \/ p.Location[i].MappingId \notin Ids(Len(p.Mapping))
          \/ \E k \in 1..Len(p.Location[i].Line) :
                p.Location[i].Line[k].FunctionId \notin Ids(Len(p.Function))
    \/ \E i \in 1..Len(p.Sample) :
          \/ Range(p.Sample[i].LocationId) \ Ids(Len(p.Location)) # {}
          \/ /\ p.Sample[i].Label \notin cached
             /\ \E k \in 1..Len(p.Sample[i].Label) :
                   {p.Sample[i].Label[k].Key, p.Sample[i].Label[k].Str}
                       \ Ids(Len(p.StringTable)) # {}

\* C21. Integrity: an Ingest call that has to translate a per-profile ID
\* which its conversion table does not have panics and stores nothing in the
\* table the ID is translated for nor in a later one; an Ingest call that
\* returns without error found the ID of every sample's stacktrace in the
\* conversion table; no stored element or sample label carries the value of
\* a failed lookup.
C21_Integrity ==
    /\ [][(CallReturns /\ last'.op = "Ingest") =>
             /\ Dangling(last'.in.p, DOMAIN pprofLabelCache) =>
                   /\ last'.err = "panic"
                   /\ UNCHANGED <<stacktraces, profiles, index, meta>>
             /\ (last'.err = "nil" /\ Len(last'.in.p.Sample) >= 1) =>
                   Ids(Len(last'.in.p.Sample)) \subseteq DOMAIN last'.rewrites.stacktraces]_vars
    /\ [](/\ \A i \in 1..Len(mappings.slice) : ~mappingPanics(mappings.slice[i])
          /\ \A i \in 1..Len(functions.slice) : ~functionPanics(functions.slice[i])
          /\ \A i \in 1..Len(locations.slice) : ~locationPanics(locations.slice[i])
          /\ \A i \in 1..Len(stacktraces.slice) : ~stacktracePanics(stacktraces.slice[i])
          /\ \A i \in 1..Len(profiles.slice) : \A k \in 1..Len(profiles.slice[i].Samples) :
                ~labelsPanic(profiles.slice[i].Samples[k].Labels))

\* C21 witness: after a call that stored a profile, a call with a sample of
\* an unknown location has panicked: its strings, mappings, functions and
\* locations were ingested, its stacktrace was not
C21_Witness ==
    /\ ncalls = 2 /\ last.op = "Ingest" /\ last.err = "panic"
    /\ last.in.p.Sample[1].LocationId = <<0, 7>>
    /\ DOMAIN last.rewrites.locations = {0, 1}
    /\ Len(stacktraces.slice) = 1 /\ Len(profiles.slice) = 1

\* the string of Head ID id
HeadString(id) == strings.slice[id + 1]

\* C22 as stated. Label cache: the labels stored on each sample are Head
\* string IDs that denote the key and value strings the sample's label pair
\* had in its own profile, whatever profiles were ingested before.
C22_LabelsOwnStrings ==
    [](\A r \in 1..Len(profiles.slice) :
          (last.op = "Ingest" /\ last.err = "nil" /\ profiles.slice[r].ID = ncalls - 1) =>
             \A i \in 1..Len(profiles.slice[r].Samples) :
                LET own    == last.in.p.Sample[i].Label
                    stored == profiles.slice[r].Samples[i].Labels
                IN /\ Len(stored) = Len(own)
                   /\ \A k \in 1..Len(own) :
                         /\ HeadString(stored[k].Key) = stringAt(last.in.p, own[k].Key)
                         /\ HeadString(stored[k].Str) = stringAt(last.in.p, own[k].Str))

-----------------------------------------------------------------------------
(* The table locks under concurrent Ingest and MergeByStacktraces calls *)

\* the callers of Ingest and of MergeByStacktraces
Writers == {"w1", "w2"}
Readers == {"r1", "r2"}

\* the uuid of the profile a caller of Ingest sends; it sends it once
WriterId(w) == IF w = "w1" THEN 1 ELSE 2
Sent(w) == \E i \in 1..Len(profiles.slice) : profiles.slice[i].ID = WriterId(w)

\* the Ingest calls that are at table T with its lock in state lk: "waiting"
\* (Lock() called, not returned), "holding"; "idle" is a call at no table
WriterAt(T, lk) ==
    {w \in Writers \cap DOMAIN procs : procs[w].pc = T /\ procs[w].lk = lk}

\* mutant: the table's lock stays locked after the ingest
wunlockNone(c) == c

\* lock.Unlock() at the end of a table's ingest
wunlock(c) == [c EXCEPT !.lk = "idle"]

\* lock.Lock() is called at the start of a table's ingest: from now on no
\* new reader gets the lock
wlock(c) == [c EXCEPT !.lk = "waiting"]

\* the profile the callers of this specification ingest
LockInputs == {[p |-> pprof(1, "cpu", <<smp(<<"a">>, 5, <<>>)>>, T1), name |-> "app", failAt |-> "none", failType |-> 1]}

\* Ingest is called
LocksIngestStart(w) ==
    /\ w \notin DOMAIN procs /\ ~Sent(w)
    /\ \E in \in LockInputs :
          procs' = procs @@ (w :> ([lk |-> "idle"] @@ NewCall(in, WriterId(w))))
    /\ ncalls' = ncalls + 1
    /\ UNCHANGED <<dataVars, loopVars, flushed, disk, last>>

\* the call reaches a table's ingest, which calls lock.Lock()
LocksWriterLock(w) ==
    /\ w \in DOMAIN procs
    /\ procs[w].pc \in Tables /\ procs[w].lk = "idle"
    /\ procs' = [procs EXCEPT ![w] = wlock(@)]
    /\ UNCHANGED <<dataVars, loopVars, flushed, disk, ncalls, last>>

\* lock.Lock() returns: no reader and no other writer holds the lock
LocksWriterAcquire(w) ==
    /\ w \in DOMAIN procs
    /\ procs[w].pc \in Tables /\ procs[w].lk = "waiting"
    /\ HeadState[procs[w].pc].lock = 0
    /\ WriterAt(procs[w].pc, "holding") = {}
    /\ procs' = [procs EXCEPT ![w].lk = "holding"]
    /\ UNCHANGED <<dataVars, loopVars, flushed, disk, ncalls, last>>

\* the call's next step: a table's ingest under its lock, up to its
\* Unlock(), or a step that takes no table lock
LocksWriterStep(w) ==
    /\ w \in DOMAIN procs
    /\ procs[w].pc \in Tables => procs[w].lk = "holding"
    /\ \E s \in {IngestStep(HeadState, procs[w])} :
          /\ SetHead(s.H)
          /\ procs' = IF s.c.pc = "done" THEN removeProc(w)
                      ELSE [procs EXCEPT ![w] = IF procs[w].pc \in Tables
                                                THEN wunlock(s.c) ELSE s.c]
    /\ UNCHANGED <<loopVars, flushed, disk, ncalls, last>>

\* MergeByStacktraces is called, head.go:471-479
LocksQueryStart(r) ==
    /\ r \notin DOMAIN procs
    /\ procs' = procs @@ (r :> NewMergeByStacktraces)
    /\ UNCHANGED <<dataVars, loopVars, flushed, disk, ncalls, last>>

\* the next RLock of head.go:481-484 returns: no writer holds the lock or
\* waits for it
LocksQueryRLock(r) ==
    /\ r \in DOMAIN procs
    /\ procs[r].locked < Len(ReadLockOrder)
    /\ LET T == ReadLockOrder[procs[r].locked + 1]
       IN /\ WriterAt(T, "waiting") \cup WriterAt(T, "holding") = {}
          /\ SetHead(RLock(HeadState, T))
    /\ procs' = [procs EXCEPT ![r].locked = @ + 1]
    /\ UNCHANGED <<loopVars, flushed, disk, ncalls, last>>

\* head.go:492-533: the call reads the rows of its iterator, which takes no
\* lock, and executes a return statement, with or without error
LocksQueryEnd(r) ==
    /\ r \in DOMAIN procs
    /\ procs[r].locked = Len(ReadLockOrder) /\ procs[r].ret = <<>>
    /\ procs' = [procs EXCEPT ![r].ret = <<[err |-> "nil", result |-> NoResult]>>]
    /\ UNCHANGED <<dataVars, loopVars, flushed, disk, ncalls, last>>

\* the deferred function of head.go:485-490: one RUnlock per step; the call
\* is over after the last one
LocksQueryUnlock(r) ==
    /\ r \in DOMAIN procs
    /\ procs[r].ret # <<>>
    /\ SetHead(runlockNext(HeadState, procs[r]))
    /\ procs' = IF procs[r].unlocked + 1 < Len(ReadLockOrder)
                THEN [procs EXCEPT ![r].unlocked = @ + 1]
                ELSE removeProc(r)
    /\ UNCHANGED <<loopVars, flushed, disk, ncalls, last>>

\* the steps of one call once it has started
WriterRuns(w) == LocksWriterLock(w) \/ LocksWriterAcquire(w) \/ LocksWriterStep(w)
ReaderRuns(r) == LocksQueryRLock(r) \/ LocksQueryEnd(r) \/ LocksQueryUnlock(r)

NextLocks ==
    \/ \E w \in Writers : LocksIngestStart(w) \/ WriterRuns(w)
    \/ \E r \in Readers : LocksQueryStart(r) \/ ReaderRuns(r)

\* Concurrent Ingest and MergeByStacktraces calls; a call that can take a
\* step is scheduled eventually
SpecLocks ==
    /\ Init /\ [][NextLocks]_vars
    /\ \A w \in Writers : WF_vars(WriterRuns(w))
    /\ \A r \in Readers : WF_vars(ReaderRuns(r))

\* the readers that hold the lock of the i-th table of their order: locked
\* and not yet unlocked
ReadersIn(i) ==
    {r \in Readers \cap DOMAIN procs : procs[r].locked >= i /\ procs[r].unlocked < i}

\* the position of a step of Ingest among its steps
PcRank(pc) ==
    CASE pc = "strings"     -> 1
      [] pc = "mappings"    -> 2
      [] pc = "functions"   -> 3
      [] pc = "locations"   -> 4
      [] pc = "labels"      -> 5
      [] pc = "stacktraces" -> 6
      [] pc = "delta"       -> 7
      [] pc = "profiles"    -> 8
      [] pc = "index"       -> 9
      [] pc = "meta"        -> 10
      [] pc = "samples"     -> 11

\* C23. Deadlock freedom: an Ingest call holds the lock of the one table it
\* is ingesting into, alone and with no reader in, releases it before it
\* goes on, and goes through the tables in the order strings, mappings,
\* functions, locations, stacktraces, profiles, also when another Ingest
\* call is at the same table; a MergeByStacktraces call takes the reader
\* locks in the order stacktraces, locations, functions, strings, holds all
\* four while it reads rows, and releases them in that order; and every
\* call that has started returns: each caller is outside a call again and
\* again (a caller of MergeByStacktraces may call for ever).
C23_NoLockDeadlock ==
    /\ [](\A i \in 1..Len(ReadLockOrder) :
             HeadState[ReadLockOrder[i]].lock = Cardinality(ReadersIn(i)))
    /\ [](\A r \in Readers \cap DOMAIN procs :
             /\ procs[r].unlocked > 0 => procs[r].ret # <<>>
             /\ procs[r].ret # <<>> => procs[r].locked = Len(ReadLockOrder))
    /\ [](\A T \in Tables :
             WriterAt(T, "holding") # {} =>
                Cardinality(WriterAt(T, "holding")) = 1 /\ HeadState[T].lock = 0)
    /\ [](\A w \in Writers \cap DOMAIN procs :
             procs[w].lk # "idle" => procs[w].pc \in Tables)
    /\ [][\A w \in Writers :
             (w \in DOMAIN procs /\ w \in DOMAIN procs' /\ procs'[w].pc # procs[w].pc) =>
                /\ procs'[w].lk = "idle"
                /\ procs[w].pc \in Tables => procs[w].lk = "holding"
                /\ \/ PcRank(procs'[w].pc) > PcRank(procs[w].pc)
                   \/ procs[w].pc = "index" /\ procs'[w].pc = "delta"]_vars
    /\ \A c \in Writers \cup Readers : []<>(c \notin DOMAIN procs)

\* r1 holds the stacktraces and waits for the locations behind the writer
\* w1, which waits for r2 to leave the locations; r2 has executed its return
\* statement and released the stacktraces, and holds the locations, the
\* functions and the strings still
ReaderBehindWriterBehindReader ==
    /\ {"w1", "r1", "r2"} \subseteq DOMAIN procs
    /\ procs["r1"].locked = 1 /\ procs["r2"].locked = 4 /\ procs["r2"].unlocked = 1
    /\ procs["w1"].pc = "locations" /\ procs["w1"].lk = "waiting"

\* C23 witness: all four calls are in flight. The Ingest call w2 waits for
\* the lock of the locations, which the Ingest call w1 holds; r1 holds the
\* stacktraces and waits for the locations behind both; r2 has executed its
\* return statement, released the stacktraces and the locations, and holds
\* the functions and the strings still
C23_Witness ==
    /\ DOMAIN procs = Writers \cup Readers
    /\ procs["w1"].pc = "locations" /\ procs["w1"].lk = "holding"
    /\ procs["w2"].pc = "locations" /\ procs["w2"].lk = "waiting"
    /\ procs["r1"].locked = 1 /\ procs["r1"].ret = <<>>
    /\ procs["r2"].locked = 4 /\ procs["r2"].unlocked = 2

-----------------------------------------------------------------------------
(* ProfileSelectorIterator *)

\* batches the producer pushes
MaxBatches == 2
\* make(chan []Profile, 1), head.go:603
ChanCap == 1

\* the batches of profiles a producer pushes; a profile is a number here
Batches == {<<>>, <<1>>, <<2, 3>>}
BatchLists == UNION {[1..n -> Batches] : n \in 0..MaxBatches}

\* it.current == nil
NilIterator == [set |-> FALSE, items |-> <<>>, pos |-> 0]

\* iter.NewSliceIterator(batch): before the first element
NewSliceIterator(batch) == [set |-> TRUE, items |-> batch, pos |-> 0]

\* ProfileWithLabels{}: the zero value At returns without a current batch
ZeroProfile == 0

\* NewProfileSelectorIterator, head.go:601-605: batch holds the buffered
\* batches of the channel, ch is "open" or "closed", once is the sync.Once
NewProfileSelectorIterator ==
    [batch |-> <<>>, ch |-> "open", current |-> NilIterator, once |-> FALSE]

\* the iterator, its producer and its consumer
Iter     == procs["it"]
Producer == procs["prod"]
Consumer == procs["cons"]
IterRuns == "it" \in DOMAIN procs

\* an iterator is made and handed to a producer, which is to push bs and
\* then close, and to a consumer
IterNew ==
    /\ ~IterRuns
    /\ \E bs \in BatchLists :
          procs' = ("it" :> NewProfileSelectorIterator)
                   @@ ("prod" :> [pc |-> "push", bs |-> bs, i |-> 1])
                   @@ ("cons" :> [pc |-> "next", got |-> <<>>])
    /\ UNCHANGED <<dataVars, loopVars, flushed, disk, ncalls, last>>

\* Push, head.go:607-612: an empty batch is dropped; the send panics on a
\* closed channel and waits while the buffer is full
IterPush ==
    /\ IterRuns
    /\ Producer.pc = "push" /\ Producer.i <= Len(Producer.bs)
    /\ LET b == Producer.bs[Producer.i] IN
       IF Len(b) = 0 THEN procs' = [procs EXCEPT !["prod"].i = @ + 1]
       ELSE IF Iter.ch = "closed" THEN procs' = [procs EXCEPT !["prod"].pc = "panic"]
       ELSE /\ Len(Iter.batch) < ChanCap
            /\ procs' = [procs EXCEPT !["prod"].i = @ + 1,
                                      !["it"].batch = Append(@, b)]
    /\ UNCHANGED <<dataVars, loopVars, flushed, disk, ncalls, last>>

\* Close, head.go:637-642: the channel is closed by the first call only
iterClose(it) == IF it.once THEN it ELSE [it EXCEPT !.once = TRUE, !.ch = closeCh(it.ch)]

\* the producer has pushed its batches and calls Close
IterProducerClose ==
    /\ IterRuns
    /\ Producer.pc = "push" /\ Producer.i > Len(Producer.bs)
    /\ procs' = [procs EXCEPT !["prod"].pc = "done", !["it"] = iterClose(@)]
    /\ UNCHANGED <<dataVars, loopVars, flushed, disk, ncalls, last>>

\* the consumer calls Close, any number of times, between its calls of Next
\* and At: before the first Next, after an At, after the last Next
IterConsumerClose ==
    /\ IterRuns
    /\ \/ Consumer.pc = "done"
       \/ Consumer.pc = "next" /\ (Iter.current.set \/ Consumer.got = <<>>)
    /\ procs' = [procs EXCEPT !["it"] = iterClose(@)]
    /\ UNCHANGED <<dataVars, loopVars, flushed, disk, ncalls, last>>

\* Next, head.go:614-628, up to its return or to its next receive: without
\* a current batch it receives one (false when the channel is closed and
\* empty, waiting when it is open and empty); with one it steps to the next
\* element, or drops the batch at its end and calls itself
IterNext ==
    /\ IterRuns
    /\ Consumer.pc = "next"
    /\ IF ~Iter.current.set
       THEN IF Len(Iter.batch) > 0
            THEN procs' = [procs EXCEPT !["it"].current = NewSliceIterator(Head(Iter.batch)),
                                        !["it"].batch = Tail(@)]
            ELSE /\ Iter.ch = "closed"
                 /\ procs' = [procs EXCEPT !["cons"].pc = "done"]
       ELSE IF Iter.current.pos < Len(Iter.current.items)
            THEN procs' = [procs EXCEPT !["it"].current.pos = @ + 1, !["cons"].pc = "at"]
            ELSE procs' = [procs EXCEPT !["it"].current = NilIterator]
    /\ UNCHANGED <<dataVars, loopVars, flushed, disk, ncalls, last>>

\* At, head.go:630-635, after a Next that returned true
IterAt ==
    /\ IterRuns
    /\ Consumer.pc = "at"
    /\ procs' = [procs EXCEPT
          !["cons"].got = Append(@, IF Iter.current.set
                                    THEN Iter.current.items[Iter.current.pos]
                                    ELSE ZeroProfile),
          !["cons"].pc = "next"]
    /\ UNCHANGED <<dataVars, loopVars, flushed, disk, ncalls, last>>

NextIter ==
    \/ IterNew \/ IterPush \/ IterProducerClose \/ IterConsumerClose
    \/ IterNext \/ IterAt

\* one ProfileSelectorIterator with its producer and its consumer
SpecIter == Init /\ [][NextIter]_vars

RECURSIVE Flatten(_)
\* the elements of the batches, in order
Flatten(bs) == IF bs = <<>> THEN <<>> ELSE Head(bs) \o Flatten(Tail(bs))

\* the consumer was given a prefix of the pushed elements, and all of them
\* once the producer has closed and Next has returned false
Delivered ==
    /\ \E n \in 0..Len(Flatten(Producer.bs)) :
          Consumer.got = SubSeq(Flatten(Producer.bs), 1, n)
    /\ (Producer.pc = "done" /\ Consumer.pc = "done") =>
          Consumer.got = Flatten(Producer.bs)

\* C24 as stated. ProfileSelectorIterator: the consumer is given the
\* elements of the non-empty batches, each once, in push order, after which
\* Next returns false; Close panics in no call; and no Push sends on the
\* closed channel, however the calls of Push and Close interleave.
C24_IteratorDelivery ==
    IterRuns => /\ Delivered
                /\ Iter.ch # "panic"
                /\ Producer.pc # "panic"

-----------------------------------------------------------------------------
(* Termination of Close *)

\* a Close call is in flight between close(h.stopCh) and its return
Closing == closePc \in {"tables", "wait"}

\* a Close call ends in this step: it returns, or it panics
CloseEnds == CallReturns /\ last'.op = "Close"

====
